---- MODULE Spec2Model ----
(***************************************************************************)
(* Model of the devskills / skillkit content server: the prioritized root  *)
(* list, the skill and prompt indexes built from it (SkillManager,         *)
(* PromptManager) and the git source resolution (gitSource).               *)
(*                                                                         *)
(* The filesystem is a map from paths (sequences of path segments) to      *)
(* nodes.  A file's text is kept parsed: which kind of frontmatter block   *)
(* it opens with, the key/value map that block holds, and the body.        *)
(***************************************************************************)
EXTENDS Naturals, Integers, Sequences, FiniteSets, TLC

VARIABLES
    fs,          \* filesystem: path -> node
    fsOps,       \* number of filesystem changes made behind the managers' back
    skillPaths,  \* SkillManager.skillPaths, highest priority first
    writablePaths, \* SkillManager.writablePaths
    promptPaths, \* PromptManager.promptPaths, highest priority first
    result,      \* the last call to a manager and what it returned or threw
    gitInstalled, \* whether `git --version` runs
    remote,      \* the git remotes: url -> repository state
    cache,       \* the local clone cache: cache directory -> clone state
    gitLog,      \* the git commands of the current (or last) call, in order
    gitOps,      \* number of changes the environment made to remotes and cache
    calls,       \* number of cloneOrUpdate / resolveSkillSources calls made
    resolve      \* the resolveSkillSources call in progress, if any

vars == <<fs, fsOps, skillPaths, writablePaths, promptPaths, result,
          gitInstalled, remote, cache, gitLog, gitOps, calls, resolve>>
fsVars == <<fs, fsOps, skillPaths, writablePaths, promptPaths>>
gitVars == <<gitInstalled, remote, cache, gitLog, gitOps, calls, resolve>>

(***************************************************************************)
(* Bounds of the model.                                                    *)
(***************************************************************************)
MaxFsOps == 2
MaxGitOps == 2
MaxCalls == 2
MaxCommit == 2
MaxSources == 2

(***************************************************************************)
(* Strings.  Code-unit order of the printable ASCII characters.            *)
(***************************************************************************)
CodeUnits ==
    " !#$%&'()*+,-./0123456789:;<=>?@ABCDEFGHIJKLMNOP"
        \o "QRSTUVWXYZ[]^_abcdefghijklmnopqrstuvwxyz{|}~"

CodeUnit(c) == CHOOSE i \in 1..Len(CodeUnits) : SubSeq(CodeUnits, i, i) = c

RECURSIVE StrLess(_, _)
StrLess(a, b) ==
    IF Len(b) = 0 THEN FALSE
    ELSE IF Len(a) = 0 THEN TRUE
    ELSE IF Head(a) = Head(b) THEN StrLess(Tail(a), Tail(b))
    ELSE CodeUnit(Head(a)) < CodeUnit(Head(b))

startsWith(s, p) == Len(s) >= Len(p) /\ SubSeq(s, 1, Len(p)) = p

endsWith(s, p) == Len(s) >= Len(p) /\ SubSeq(s, Len(s) - Len(p) + 1, Len(s)) = p

\* The keys in descending order.
RECURSIVE sortDescending(_)
sortDescending(S) ==
    IF S = {} THEN <<>>
    ELSE LET m == CHOOSE x \in S : \A y \in S \ {x} : StrLess(y, x)
         IN  <<m>> \o sortDescending(S \ {m})

\* Array.prototype.sort() / localeCompare on a set of distinct keys.
RECURSIVE sort(_)
sort(S) ==
    IF S = {} THEN <<>>
    ELSE LET m == CHOOSE x \in S : \A y \in S \ {x} : StrLess(x, y)
         IN  <<m>> \o sort(S \ {m})

\* Array.prototype.join
RECURSIVE joinStr(_, _)
joinStr(seq, sep) ==
    IF Len(seq) = 0 THEN ""
    ELSE IF Len(seq) = 1 THEN seq[1]
    ELSE seq[1] \o sep \o joinStr(Tail(seq), sep)

Reverse(seq) == [i \in 1..Len(seq) |-> seq[Len(seq) + 1 - i]]

(***************************************************************************)
(* Filesystem.                                                             *)
(***************************************************************************)
UserRoot == <<"user">>
BundledRoot == <<"bundled">>
Roots == {UserRoot, BundledRoot}
SkillItems == {"a", "b", "_x"}
PromptItems == {"a.md", "b.md", "n.txt"}
SubDirs == {"scripts", "references"}
Filenames == {"run.sh", "doc.md"}

join(p, seg) == Append(p, seg)

\* path.join(p, filename) for a filename that may hold separators: its
\* segments are appended one by one, "" and "." are dropped and ".." takes
\* the last segment off.
RECURSIVE splitSegments(_)
splitSegments(s) ==
    LET slashes == { i \in 1..Len(s) : SubSeq(s, i, i) = "/" }
        n == CHOOSE i \in slashes : \A j \in slashes : i <= j
    IN  IF slashes = {} THEN <<s>>
        ELSE <<SubSeq(s, 1, n - 1)>> \o splitSegments(SubSeq(s, n + 1, Len(s)))

RECURSIVE joinSegments(_, _)
joinSegments(p, segments) ==
    IF Len(segments) = 0 THEN p
    ELSE LET seg == Head(segments)
         IN  joinSegments(IF seg \in {"", "."} THEN p
                          ELSE IF seg = ".."
                          THEN (IF Len(p) > 0 THEN SubSeq(p, 1, Len(p) - 1) ELSE p)
                          ELSE Append(p, seg),
                          Tail(segments))

joinPath(p, filename) == joinSegments(p, splitSegments(filename))

AllPaths ==
    Roots
    \cup { join(r, d) : r \in Roots, d \in {"skills", "prompts"} }
    \cup { r \o <<"skills", i>> : r \in Roots, i \in SkillItems }
    \cup { r \o <<"skills", i, "SKILL.md">> : r \in Roots, i \in SkillItems }
    \cup { r \o <<"skills", i, d>> : r \in Roots, i \in SkillItems, d \in SubDirs }
    \cup { r \o <<"skills", i, d, f>> :
             r \in Roots, i \in SkillItems, d \in SubDirs, f \in Filenames }
    \cup { r \o <<"prompts", i>> : r \in Roots, i \in PromptItems }

NoText == [fm |-> "none", map |-> <<>>, body |-> ""]
Absent == [type |-> "absent", readable |-> FALSE, text |-> NoText]
Dir == [type |-> "dir", readable |-> TRUE, text |-> NoText]
File(text) == [type |-> "file", readable |-> TRUE, text |-> text]

Node(f, p) == IF p \in DOMAIN f THEN f[p] ELSE Absent

existsSync(f, p) == Node(f, p).type # "absent"
isDirectory(f, p) == Node(f, p).type = "dir"
isFile(f, p) == Node(f, p).type = "file"

\* readdirSync: the names of the entries of directory p.
readdirSync(f, p) ==
    { q[Len(q)] : q \in { x \in DOMAIN f : Len(x) = Len(p) + 1
                                           /\ SubSeq(x, 1, Len(p)) = p
                                           /\ f[x].type # "absent" } }

\* readFileSync succeeds on a readable regular file and throws otherwise.
canRead(f, p) == isFile(f, p) /\ Node(f, p).readable


(***************************************************************************)
(* Maps (the Map objects and parsed frontmatter records of the source).    *)
(***************************************************************************)
EmptyMap == <<>>

\* Map.prototype.set for every entry of n, in any order (the keys differ).
MapSetAll(m, n) ==
    [k \in DOMAIN m \cup DOMAIN n |-> IF k \in DOMAIN n THEN n[k] ELSE m[k]]

\* m.k ?? d
OrElse(m, k, d) == IF k \in DOMAIN m THEN m[k] ELSE d

(***************************************************************************)
(* SkillManager                                                            *)
(***************************************************************************)
\* The iteration without the test of the leading "_".
skillsOfRootUnfiltered(f, repoPath) ==
    LET skillsDir == join(repoPath, "skills")
    IN  IF ~existsSync(f, skillsDir) \/ ~isDirectory(f, skillsDir) THEN EmptyMap
        ELSE [item \in { i \in readdirSync(f, skillsDir) :
                           /\ isDirectory(f, join(skillsDir, i))
                           /\ existsSync(f, join(join(skillsDir, i), "SKILL.md")) }
                |-> join(skillsDir, item)]

\* One iteration of the loop of discoverSkills: the entries root repoPath adds.
skillsOfRoot(f, repoPath) ==
    LET skillsDir == join(repoPath, "skills")
    IN  IF ~existsSync(f, repoPath) THEN EmptyMap
        ELSE IF ~existsSync(f, skillsDir) \/ ~isDirectory(f, skillsDir) THEN EmptyMap
        ELSE [item \in { i \in readdirSync(f, skillsDir) :
                           /\ ~startsWith(i, "_")
                           /\ isDirectory(f, join(skillsDir, i))
                           /\ existsSync(f, join(join(skillsDir, i), "SKILL.md")) }
                |-> join(skillsDir, item)]

RECURSIVE discoverLoop(_, _, _)
discoverLoop(f, paths, skills) ==
    IF Len(paths) = 0 THEN skills
    ELSE discoverLoop(f, Tail(paths), MapSetAll(skills, skillsOfRoot(f, Head(paths))))

discoverSkills(f, paths) == discoverLoop(f, Reverse(paths), EmptyMap)

parseFrontmatter(text) == IF text.fm = "map" THEN text.map ELSE EmptyMap

\* The entry listAll pushes for index entry name -> skillPath.  src is the
\* file the entry was built from; it is not a field of SkillInfo.
skillInfo(f, name, skillPath) ==
    LET skillFile == join(skillPath, "SKILL.md")
    IN  IF canRead(f, skillFile)
        THEN LET frontmatter == parseFrontmatter(f[skillFile].text)
             IN  [name |-> OrElse(frontmatter, "name", name),
                  description |-> OrElse(frontmatter, "description",
                                         "No description available"),
                  src |-> skillFile]
        ELSE [name |-> name,
              description |-> "Unable to read skill description",
              src |-> skillFile]

listAllSkills(f, paths) ==
    LET skills == discoverSkills(f, paths)
        sortedEntries == sort(DOMAIN skills)
    IN  [i \in 1..Len(sortedEntries) |->
            skillInfo(f, sortedEntries[i], skills[sortedEntries[i]])]

\* What a call returned or threw.  reads are the files it read; listed is
\* the array an error message enumerates (joined into error with ", ").
Returned(op, args, value, reads) ==
    [op |-> op, args |-> args, ok |-> TRUE, value |-> value, error |-> "",
     reads |-> reads, listed |-> <<>>]
Thrown(op, args, error, listed, reads) ==
    [op |-> op, args |-> args, ok |-> FALSE, value |-> <<>>,
     error |-> error \o joinStr(listed, ", "), reads |-> reads, listed |-> listed]

skillNotFound(skill) == "Skill '" \o skill \o "' not found. Available skills: "

getContent(f, paths, name) ==
    LET skills == discoverSkills(f, paths)
    IN  IF name \notin DOMAIN skills
        THEN Thrown("getContent", <<name>>, skillNotFound(name),
                    sort(DOMAIN skills), {})
        ELSE LET skillFile == join(skills[name], "SKILL.md")
             IN  IF canRead(f, skillFile)
                 THEN Returned("getContent", <<name>>,
                               [path |-> skillFile, text |-> f[skillFile].text],
                               {skillFile})
                 ELSE Thrown("getContent", <<name>>,
                             "Error reading skill '" \o name \o "'", <<>>, {skillFile})

\* getScript (sub = "scripts", Label = "Script", label = "script") and
\* getReference (sub = "references", ...), which differ in these words only.
\* The files of the directory are enumerated in the order readdirSync
\* gives them, taken to be ascending.
getSubResource(f, paths, op, sub, Label, label, skill, filename) ==
    LET skills == discoverSkills(f, paths)
    IN  IF skill \notin DOMAIN skills
        THEN Thrown(op, <<skill, filename>>, skillNotFound(skill),
                    sort(DOMAIN skills), {})
        ELSE
        LET skillPath == skills[skill]
            scriptsDir == join(skillPath, sub)
            scriptPath == joinPath(scriptsDir, filename)
            availableScripts == { x \in readdirSync(f, scriptsDir) :
                                    isFile(f, join(scriptsDir, x)) }
            notFound == Label \o " '" \o filename \o "' not found in skill '"
                            \o skill \o "'. "
        IN  IF ~existsSync(f, scriptPath)
            THEN IF /\ existsSync(f, scriptsDir) /\ isDirectory(f, scriptsDir)
                    /\ availableScripts # {}
                 THEN Thrown(op, <<skill, filename>>,
                             notFound \o "Available " \o sub \o ": ",
                             sort(availableScripts), {})
                 ELSE Thrown(op, <<skill, filename>>,
                             notFound \o "No " \o sub
                                 \o " directory exists for this skill.", <<>>, {})
            ELSE IF canRead(f, scriptPath)
                 THEN Returned(op, <<skill, filename>>,
                               [path |-> scriptPath, text |-> f[scriptPath].text],
                               {scriptPath})
                 ELSE Thrown(op, <<skill, filename>>,
                             "Error reading " \o label \o " '" \o filename
                                 \o "' from skill '" \o skill \o "'", <<>>,
                             {scriptPath})

getScript(f, paths, skill, filename) ==
    getSubResource(f, paths, "getScript", "scripts", "Script", "script",
                   skill, filename)

getReference(f, paths, skill, filename) ==
    getSubResource(f, paths, "getReference", "references", "Reference",
                   "reference", skill, filename)


(***************************************************************************)
(* PromptManager                                                           *)
(***************************************************************************)
\* One iteration of the loop of discoverPrompts.
promptsOfDir(f, promptsDir) ==
    IF ~existsSync(f, promptsDir) THEN EmptyMap
    ELSE [name \in { SubSeq(item, 1, Len(item) - 3) :
                       item \in { i \in readdirSync(f, promptsDir) :
                                    /\ endsWith(i, ".md")
                                    /\ isFile(f, join(promptsDir, i)) } }
            |-> join(promptsDir, name \o ".md")]

RECURSIVE discoverPromptsLoop(_, _, _)
discoverPromptsLoop(f, paths, prompts) ==
    IF Len(paths) = 0 THEN prompts
    ELSE discoverPromptsLoop(f, Tail(paths),
                             MapSetAll(prompts, promptsOfDir(f, Head(paths))))

discoverPrompts(f, paths) == discoverPromptsLoop(f, Reverse(paths), EmptyMap)

extractBody(text) == text.body

promptNotFound(name) == "Prompt '" \o name \o "' not found. Available: "

getBody(f, paths, name) ==
    LET prompts == discoverPrompts(f, paths)
    IN  IF name \notin DOMAIN prompts
        THEN Thrown("getBody", <<name>>, promptNotFound(name), sort(DOMAIN prompts), {})
        ELSE IF canRead(f, prompts[name])
        THEN Returned("getBody", <<name>>,
                      [path |-> prompts[name],
                       text |-> extractBody(f[prompts[name]].text)],
                      {prompts[name]})
        ELSE Thrown("getBody", <<name>>, "EACCES", <<>>, {prompts[name]})

\* \w of the regular expression /\{\{(\w+)\}\}/g
WordChars == "0123456789ABCDEFGHIJKLMNOPQRSTUVWXYZ_abcdefghijklmnopqrstuvwxyz"
isWordChar(c) == \E i \in 1..Len(WordChars) : SubSeq(WordChars, i, i) = c

RECURSIVE wordPrefix(_)
wordPrefix(s) ==
    IF Len(s) > 0 /\ isWordChar(Head(s)) THEN Head(s) \o wordPrefix(Tail(s)) ELSE ""

\* body.matchAll(/\{\{(\w+)\}\}/g) added to a Set, in first-occurrence order.
RECURSIVE matchAllVars(_, _)
matchAllVars(body, found) ==
    IF Len(body) = 0 THEN found
    ELSE IF startsWith(body, "{{")
    THEN LET w == wordPrefix(SubSeq(body, 3, Len(body)))
             rest == SubSeq(body, 3 + Len(w), Len(body))
         IN  IF Len(w) > 0 /\ startsWith(rest, "}}")
             THEN matchAllVars(SubSeq(rest, 3, Len(rest)),
                               IF \E i \in 1..Len(found) : found[i] = w
                               THEN found ELSE Append(found, w))
             ELSE matchAllVars(Tail(body), found)
    ELSE matchAllVars(Tail(body), found)

\* Arguments objects keep their keys in insertion order.
NoArguments == [order |-> <<>>, spec |-> EmptyMap]

\* getTemplateVariables on a body that was read.
templateVariables(body) == matchAllVars(body, <<>>)

\* getArguments on frontmatter that was read: fm.arguments missing, or
\* rejected by PromptArgumentsSchema.safeParse, gives {}.
frontmatterArguments(fm) ==
    IF "arguments" \notin DOMAIN fm THEN NoArguments
    ELSE IF ~fm["arguments"].valid THEN NoArguments
    ELSE fm["arguments"].args

\* The properties every object inherits from Object.prototype.
ObjectPrototypeKeys ==
    {"constructor", "hasOwnProperty", "isPrototypeOf", "propertyIsEnumerable",
     "toLocaleString", "toString", "valueOf", "__proto__", "__defineGetter__",
     "__defineSetter__", "__lookupGetter__", "__lookupSetter__"}

\* key in obj: an own property or an inherited one
hasProperty(obj, key) == key \in DOMAIN obj.spec \/ key \in ObjectPrototypeKeys

\* An integer index: a canonical decimal numeral.
isArrayIndex(key) ==
    /\ Len(key) > 0
    /\ \A i \in 1..Len(key) : \E d \in 1..10 : SubSeq(key, i, i) = SubSeq(WordChars, d, d)
    /\ Len(key) > 1 => SubSeq(key, 1, 1) # "0"

IndexLess(a, b) == Len(a) < Len(b) \/ (Len(a) = Len(b) /\ StrLess(a, b))

\* obj[key] = value for a new key: the keys of an object are enumerated with
\* the integer indices first, ascending, then the others as inserted.
setProperty(obj, key, value) ==
    LET before == IF isArrayIndex(key)
                  THEN SelectSeq(obj.order,
                                 LAMBDA k : isArrayIndex(k) /\ IndexLess(k, key))
                  ELSE obj.order
        after == SubSeq(obj.order, Len(before) + 1, Len(obj.order))
    IN  [order |-> before \o <<key>> \o after,
         spec |-> MapSetAll(obj.spec, [k \in {key} |-> value])]

RECURSIVE mergeVars(_, _)
mergeVars(merged, bodyVars) ==
    IF Len(bodyVars) = 0 THEN merged
    ELSE LET varName == Head(bodyVars)
         IN  mergeVars(IF hasProperty(merged, varName) THEN merged
                       ELSE setProperty(merged, varName, EmptyMap),
                       Tail(bodyVars))

\* getMergedArguments: [ok, args, src]; not ok when getArguments or getBody
\* throws (name is no key of the index, or its file cannot be read).
getMergedArguments(f, paths, name) ==
    LET prompts == discoverPrompts(f, paths)
    IN  IF name \notin DOMAIN prompts
        THEN [ok |-> FALSE, error |-> promptNotFound(name),
              args |-> NoArguments, src |-> <<>>]
        ELSE IF ~canRead(f, prompts[name])
        THEN [ok |-> FALSE, error |-> "EACCES", args |-> NoArguments,
              src |-> prompts[name]]
        ELSE LET text == f[prompts[name]].text
             IN  [ok |-> TRUE, error |-> "",
                  args |-> mergeVars(frontmatterArguments(parseFrontmatter(text)),
                                     templateVariables(extractBody(text))),
                  src |-> prompts[name]]

\* The entries listAll pushes for index entry name -> promptPath: one, or
\* none when reading or getMergedArguments throws.  src and argsSrc are the
\* files the entry was built from; they are not fields of PromptInfo.
promptInfo(f, paths, name, promptPath) ==
    IF ~canRead(f, promptPath) THEN <<>>
    ELSE LET fm == parseFrontmatter(f[promptPath].text)
             promptName == OrElse(fm, "name", name)
             mergedArgs == getMergedArguments(f, paths, promptName)
         IN  IF ~mergedArgs.ok THEN <<>>
             ELSE << [name |-> promptName,
                      description |-> OrElse(fm, "description", ""),
                      arguments |-> mergedArgs.args,
                      src |-> promptPath,
                      argsSrc |-> mergedArgs.src] >>

RECURSIVE listPromptEntries(_, _, _, _)
listPromptEntries(f, paths, prompts, sortedEntries) ==
    IF Len(sortedEntries) = 0 THEN <<>>
    ELSE promptInfo(f, paths, Head(sortedEntries), prompts[Head(sortedEntries)])
            \o listPromptEntries(f, paths, prompts, Tail(sortedEntries))

listAllPrompts(f, paths) ==
    LET prompts == discoverPrompts(f, paths)
    IN  listPromptEntries(f, paths, prompts, sort(DOMAIN prompts))


getArguments(f, paths, name) ==
    LET prompts == discoverPrompts(f, paths)
    IN  IF name \notin DOMAIN prompts
        THEN Thrown("getArguments", <<name>>, promptNotFound(name),
                    sort(DOMAIN prompts), {})
        ELSE IF canRead(f, prompts[name])
        THEN Returned("getArguments", <<name>>,
                      frontmatterArguments(parseFrontmatter(f[prompts[name]].text)),
                      {prompts[name]})
        ELSE Thrown("getArguments", <<name>>, "EACCES", <<>>, {prompts[name]})

(***************************************************************************)
(* PromptManager: the schema of the arguments and the substitution.        *)
(* A value is a string, a number or a boolean.                             *)
(***************************************************************************)
StringValue(x) == [t |-> "string", str |-> x]
NumberValue(n) == [t |-> "number", num |-> n]
BooleanValue(b) == [t |-> "boolean", bool |-> b]

Digits == "0123456789"

\* Number.prototype.toString for a natural number
RECURSIVE decimal(_)
decimal(n) ==
    IF n < 10 THEN SubSeq(Digits, n + 1, n + 1)
    ELSE decimal(n \div 10) \o SubSeq(Digits, (n % 10) + 1, (n % 10) + 1)

\* String(value)
String(value) ==
    IF value.t = "string" THEN value.str
    ELSE IF value.t = "number" THEN decimal(value.num)
    ELSE IF value.bool THEN "true" ELSE "false"

\* The text String.prototype.replace inserts for a replacement string:
\* $$ is "$" and $& is the match (the patterns for the text before and
\* after the match are not used by the values of this model).
RECURSIVE expandReplacement(_, _)
expandReplacement(replacement, matched) ==
    IF Len(replacement) = 0 THEN ""
    ELSE IF Len(replacement) >= 2 /\ SubSeq(replacement, 1, 2) = "$$"
    THEN "$" \o expandReplacement(SubSeq(replacement, 3, Len(replacement)), matched)
    ELSE IF Len(replacement) >= 2 /\ SubSeq(replacement, 1, 2) = "$&"
    THEN matched \o expandReplacement(SubSeq(replacement, 3, Len(replacement)), matched)
    ELSE Head(replacement) \o expandReplacement(Tail(replacement), matched)

\* A replace that stops after the first match.
replaceFirstFrom(body, i, key, replacement) ==
    LET pattern == "{{" \o key \o "}}"
        starts == { j \in i..(Len(body) - Len(pattern) + 1) :
                      SubSeq(body, j, j + Len(pattern) - 1) = pattern }
        first == CHOOSE j \in starts : \A k \in starts : j <= k
    IN  IF starts = {} THEN SubSeq(body, i, Len(body))
        ELSE SubSeq(body, i, first - 1) \o expandReplacement(replacement, pattern)
                \o SubSeq(body, first + Len(pattern), Len(body))

\* body.replace(pattern, replacement) for the global pattern of {{key}}, from
\* position i on; key is an identifier.
RECURSIVE replaceFrom(_, _, _, _)
replaceFrom(body, i, key, replacement) ==
    LET pattern == "{{" \o key \o "}}"
        last == i + Len(pattern) - 1
    IN  IF i > Len(body) THEN ""
        ELSE IF last <= Len(body) /\ SubSeq(body, i, last) = pattern
        THEN expandReplacement(replacement, pattern)
                \o replaceFrom(body, last + 1, key, replacement)
        ELSE SubSeq(body, i, i) \o replaceFrom(body, i + 1, key, replacement)

\* The loop of getBodyWithArgs over Object.entries(args).
RECURSIVE substituteEntries(_, _, _)
substituteEntries(body, keys, args) ==
    IF Len(keys) = 0 THEN body
    ELSE substituteEntries(replaceFrom(body, 1, Head(keys), String(args.spec[Head(keys)])),
                           Tail(keys), args)

getBodyWithArgs(f, paths, name, args) ==
    LET body == getBody(f, paths, name)
    IN  IF ~body.ok THEN [body EXCEPT !.op = "getBodyWithArgs", !.args = <<name, args>>]
        ELSE Returned("getBodyWithArgs", <<name, args>>,
                      substituteEntries(body.value.text, args.order, args),
                      body.reads)

\* The field buildArgsSchema makes for one argument.
fieldSchema(argDef) ==
    LET argType == OrElse(argDef, "type", "string")
    IN  [type |-> IF argType \in {"number", "boolean"} THEN argType ELSE "string",
         hasDefault |-> "default" \in DOMAIN argDef,
         optional |-> "default" \notin DOMAIN argDef /\ argType = "boolean",
         default |-> OrElse(argDef, "default", StringValue(""))]

\* buildArgsSchema: [ok, shape]; not ok when getMergedArguments throws.
buildArgsSchema(f, paths, name) ==
    LET mergedArgs == getMergedArguments(f, paths, name)
    IN  [ok |-> mergedArgs.ok,
         shape |-> [argName \in DOMAIN mergedArgs.args.spec |->
                       fieldSchema(mergedArgs.args.spec[argName])]]

\* z.object(shape).safeParse(input): a key that is present has the type of
\* its field, one that is absent takes the default of its field, stays unset
\* when the field is optional and is an error otherwise; other keys are
\* stripped.
zodParse(shape, input) ==
    LET missing == { k \in DOMAIN shape :
                       k \notin DOMAIN input.spec
                          /\ ~shape[k].hasDefault /\ ~shape[k].optional }
        mistyped == { k \in DOMAIN shape :
                        k \in DOMAIN input.spec /\ input.spec[k].t # shape[k].type }
        set == { k \in DOMAIN shape : k \in DOMAIN input.spec \/ shape[k].hasDefault }
    IN  [success |-> missing = {} /\ mistyped = {},
         issues |-> missing \cup mistyped,
         data |-> [k \in set |-> IF k \in DOMAIN input.spec THEN input.spec[k]
                                 ELSE shape[k].default]]

(***************************************************************************)
(* validation: validateSkill and validatePrompt.  The values of the        *)
(* frontmatter a validator reads are tagged with their typeof.             *)
(***************************************************************************)
ALLOWED_PROPERTIES == {"name", "description", "license"}
MAX_NAME_LENGTH == 64
MAX_DESCRIPTION_LENGTH == 1024

\* a YAML null
NullValue == [t |-> "object"]

\* String.prototype.trim
isWhitespace(c) == c = " " \/ c = "\t" \/ c = "\n"
RECURSIVE trimStart(_)
trimStart(s) == IF Len(s) > 0 /\ isWhitespace(Head(s)) THEN trimStart(Tail(s)) ELSE s
RECURSIVE trimEnd(_)
trimEnd(s) ==
    IF Len(s) > 0 /\ isWhitespace(SubSeq(s, Len(s), Len(s)))
    THEN trimEnd(SubSeq(s, 1, Len(s) - 1)) ELSE s
trim(s) == trimEnd(trimStart(s))

includes(s, p) == \E i \in 1..(Len(s) - Len(p) + 1) : SubSeq(s, i, i + Len(p) - 1) = p

\* /^[a-z0-9-]+$/.test(s)
HyphenCaseChars == "abcdefghijklmnopqrstuvwxyz0123456789-"
isHyphenCase(s) ==
    /\ Len(s) > 0
    /\ \A i \in 1..Len(s) : includes(HyphenCaseChars, SubSeq(s, i, i))

\* The result of a validator that returns at once with one error.
invalidSkill(message) == [valid |-> FALSE, message |-> message, errors |-> <<message>>]

\* The errors of the checks of the name.
nameErrors(name) ==
    LET trimmedName == trim(name)
    IN  IF trimmedName = "" THEN <<>>
        ELSE (IF ~isHyphenCase(trimmedName)
              THEN <<"Name '" \o trimmedName
                       \o "' should be hyphen-case (lowercase letters, digits, and hyphens only)">>
              ELSE <<>>)
          \o (IF startsWith(trimmedName, "-") \/ endsWith(trimmedName, "-")
                    \/ includes(trimmedName, "--")
              THEN <<"Name '" \o trimmedName
                       \o "' cannot start/end with hyphen or contain consecutive hyphens">>
              ELSE <<>>)
          \o (IF Len(trimmedName) > MAX_NAME_LENGTH
              THEN <<"Name is too long (" \o decimal(Len(trimmedName))
                       \o " characters). Maximum is " \o decimal(MAX_NAME_LENGTH)
                       \o " characters.">>
              ELSE <<>>)

\* The errors of the checks of the description.
descriptionErrors(description) ==
    LET trimmedDescription == trim(description)
    IN  IF trimmedDescription = "" THEN <<>>
        ELSE (IF includes(trimmedDescription, "<") \/ includes(trimmedDescription, ">")
              THEN <<"Description cannot contain angle brackets (< or >)">>
              ELSE <<>>)
          \o (IF Len(trimmedDescription) > MAX_DESCRIPTION_LENGTH
              THEN <<"Description is too long (" \o decimal(Len(trimmedDescription))
                       \o " characters). Maximum is " \o decimal(MAX_DESCRIPTION_LENGTH)
                       \o " characters.">>
              ELSE <<>>)

\* validateSkill once the frontmatter is a dictionary.
validateFrontmatter(frontmatter) ==
    LET unexpectedKeys == DOMAIN frontmatter \ ALLOWED_PROPERTIES
        missing == (IF "name" \notin DOMAIN frontmatter
                    THEN <<"Missing 'name' in frontmatter">> ELSE <<>>)
                   \o (IF "description" \notin DOMAIN frontmatter
                       THEN <<"Missing 'description' in frontmatter">> ELSE <<>>)
    IN  IF unexpectedKeys # {}
        THEN invalidSkill("Unexpected key(s) in SKILL.md frontmatter: "
                            \o joinStr(sort(unexpectedKeys), ", ")
                            \o ". Allowed properties are: "
                            \o joinStr(sort(ALLOWED_PROPERTIES), ", "))
        ELSE IF missing # <<>>
        THEN [valid |-> FALSE, message |-> joinStr(missing, "; "), errors |-> missing]
        ELSE IF frontmatter["name"].t # "string"
        THEN invalidSkill("Name must be a string, got " \o frontmatter["name"].t)
        ELSE IF frontmatter["description"].t # "string"
        THEN invalidSkill("Description must be a string, got "
                            \o frontmatter["description"].t)
        ELSE LET errors == nameErrors(frontmatter["name"].str)
                             \o descriptionErrors(frontmatter["description"].str)
             IN  IF errors # <<>>
                 THEN [valid |-> FALSE, message |-> joinStr(errors, "; "),
                       errors |-> errors]
                 ELSE [valid |-> TRUE, message |-> "Skill is valid!", errors |-> <<>>]

\* validateSkill(skillPath).  text.fm says what the content starts with:
\* "none" no "---", "unclosed" no closing delimiter, "invalid" YAML that does
\* not load, "scalar" YAML that is no dictionary, "map" a dictionary.
validateSkill(f, skillPath) ==
    LET skillMdPath == join(skillPath, "SKILL.md")
        text == Node(f, skillMdPath).text
        verdict ==
            IF ~existsSync(f, skillMdPath) THEN invalidSkill("SKILL.md not found")
            ELSE IF ~canRead(f, skillMdPath)
            THEN invalidSkill("Error reading SKILL.md: EACCES")
            ELSE IF text.fm = "none" THEN invalidSkill("No YAML frontmatter found")
            ELSE IF text.fm = "unclosed" THEN invalidSkill("Invalid frontmatter format")
            ELSE IF text.fm = "scalar"
            THEN invalidSkill("Frontmatter must be a YAML dictionary")
            ELSE IF text.fm = "invalid"
            THEN invalidSkill("Invalid YAML in frontmatter: YAMLException")
            ELSE validateFrontmatter(text.map)
    IN  Returned("validateSkill", <<skillPath>>, verdict, {skillMdPath})

Min(S) == CHOOSE x \in S : \A y \in S : x <= y

\* Row i of the matrix of levenshteinDistance, i >= 1, from row i - 1 (prev)
\* and the cells of row i filled so far; c is b.charAt(i - 1).
RECURSIVE fillRow(_, _, _, _)
fillRow(prev, row, a, c) ==
    LET j == Len(row)
    IN  IF j > Len(a) THEN row
        ELSE fillRow(prev,
                     Append(row, IF c = SubSeq(a, j, j) THEN prev[j]
                                 ELSE Min({prev[j] + 1, row[j] + 1, prev[j + 1] + 1})),
                     a, c)

RECURSIVE matrixRow(_, _, _)
matrixRow(a, b, i) ==
    IF i = 0 THEN [j \in 1..(Len(a) + 1) |-> j - 1]
    ELSE fillRow(matrixRow(a, b, i - 1), <<i>>, a, SubSeq(b, i, i))

levenshteinDistance(a, b) == matrixRow(a, b, Len(b))[Len(a) + 1]

\* findSimilar: the first candidate at a distance of 1 or 2, or undefined.
Undefined == [defined |-> FALSE, value |-> ""]
RECURSIVE findSimilar(_, _)
findSimilar(name, candidates) ==
    IF Len(candidates) = 0 THEN Undefined
    ELSE LET distance == levenshteinDistance(name, Head(candidates))
         IN  IF distance <= 2 /\ distance > 0
             THEN [defined |-> TRUE, value |-> Head(candidates)]
             ELSE findSimilar(name, Tail(candidates))

\* if (x) for a string that may be undefined
truthy(x) == x.defined /\ x.value # ""

\* The type errors and the warnings of missing descriptions, one argument
\* after the other.
RECURSIVE typeErrors(_, _)
typeErrors(names, definedArgs) ==
    IF Len(names) = 0 THEN <<>>
    ELSE LET argDef == definedArgs[Head(names)]
             def == IF argDef = NullValue THEN EmptyMap ELSE argDef
         IN  (IF "type" \in DOMAIN def /\ def["type"] \notin {"string", "number", "boolean"}
              THEN <<"Invalid type '" \o def["type"] \o "'. Use: string, number, boolean.">>
              ELSE <<>>)
             \o typeErrors(Tail(names), definedArgs)

RECURSIVE descriptionWarnings(_, _)
descriptionWarnings(names, definedArgs) ==
    IF Len(names) = 0 THEN <<>>
    ELSE LET argDef == definedArgs[Head(names)]
             def == IF argDef = NullValue THEN EmptyMap ELSE argDef
         IN  (IF "description" \notin DOMAIN def \/ def["description"] = ""
              THEN <<"Argument '" \o Head(names) \o "' has no description.">>
              ELSE <<>>)
             \o descriptionWarnings(Tail(names), definedArgs)

\* The check of the placeholders stopping at the first one that is undefined.
undefinedErrorsFirstOnly(bodyVars, definedArgNames) ==
    LET undefinedVars == SelectSeq(bodyVars, LAMBDA v :
                            \A i \in 1..Len(definedArgNames) : definedArgNames[i] # v)
    IN  IF undefinedVars = <<>> THEN <<>>
        ELSE <<"Undefined variable '" \o Head(undefinedVars)
                 \o "'. Add to arguments or fix typo.">>

RECURSIVE undefinedErrors(_, _)
undefinedErrors(bodyVars, definedArgNames) ==
    IF Len(bodyVars) = 0 THEN <<>>
    ELSE LET varName == Head(bodyVars)
             similar == findSimilar(varName, definedArgNames)
         IN  (IF \E i \in 1..Len(definedArgNames) : definedArgNames[i] = varName
              THEN <<>>
              ELSE IF truthy(similar)
              THEN <<"Undefined variable '" \o varName \o "'. Did you mean '"
                       \o similar.value \o "'?">>
              ELSE <<"Undefined variable '" \o varName
                       \o "'. Add to arguments or fix typo.">>)
             \o undefinedErrors(Tail(bodyVars), definedArgNames)

RECURSIVE unusedWarnings(_, _)
unusedWarnings(definedArgNames, bodyVars) ==
    IF Len(definedArgNames) = 0 THEN <<>>
    ELSE (IF \E i \in 1..Len(bodyVars) : bodyVars[i] = Head(definedArgNames)
          THEN <<>>
          ELSE <<"Argument '" \o Head(definedArgNames) \o "' defined but never used.">>)
         \o unusedWarnings(Tail(definedArgNames), bodyVars)

\* validatePrompt(promptPath).  The frontmatter is {} unless the YAML loads
\* to a dictionary; frontmatter.arguments is read as it was written, whether
\* PromptArgumentsSchema accepts it or not.
validatePrompt(f, promptPath) ==
    LET text == Node(f, promptPath).text
        frontmatter == IF text.fm = "map" THEN text.map ELSE EmptyMap
        body == trim(text.body)
        definedArgs == IF "arguments" \in DOMAIN frontmatter
                       THEN frontmatter["arguments"].args ELSE NoArguments
        bodyVars == matchAllVars(body, <<>>)
        errors == typeErrors(definedArgs.order, definedArgs.spec)
                    \o undefinedErrors(bodyVars, definedArgs.order)
        warnings == descriptionWarnings(definedArgs.order, definedArgs.spec)
                      \o unusedWarnings(definedArgs.order, bodyVars)
        verdict ==
            IF ~existsSync(f, promptPath)
            THEN [valid |-> FALSE, errors |-> <<"Prompt file not found: ">>,
                  warnings |-> <<>>]
            ELSE IF ~canRead(f, promptPath)
            THEN [valid |-> FALSE, errors |-> <<"Error reading prompt: EACCES">>,
                  warnings |-> <<>>]
            ELSE [valid |-> errors = <<>>, errors |-> errors, warnings |-> warnings]
    IN  Returned("validatePrompt", <<promptPath>>, verdict, {promptPath})

(***************************************************************************)
(* Construction.                                                           *)
(***************************************************************************)
\* The directories among paths, in the order given.
existingDirectories(f, paths) ==
    SelectSeq(paths, LAMBDA p : existsSync(f, p) /\ isDirectory(f, p))

\* The loop over DEVSKILLS_SKILLS_PATH.split(":"): an entry that is blank
\* (the empty path here), is no directory, or is in skillPaths already is
\* skipped; the others are pushed on both lists.
RECURSIVE pushEnvPaths(_, _, _)
pushEnvPaths(f, envPaths, lists) ==
    IF Len(envPaths) = 0 THEN lists
    ELSE LET p == Head(envPaths)
         IN  pushEnvPaths(f, Tail(envPaths),
                IF p # <<>> /\ existsSync(f, p) /\ isDirectory(f, p)
                     /\ \A i \in 1..Len(lists.skillPaths) : lists.skillPaths[i] # p
                THEN [skillPaths |-> Append(lists.skillPaths, p),
                      writablePaths |-> Append(lists.writablePaths, p)]
                ELSE lists)

\* SkillManager's constructor: [skillPaths, writablePaths].
newSkillManager(f, extraPaths, envPaths, includeBundled) ==
    LET extra == existingDirectories(f, extraPaths)
        user == pushEnvPaths(f, envPaths, [skillPaths |-> extra, writablePaths |-> extra])
    IN  [skillPaths |-> user.skillPaths
                          \o (IF includeBundled /\ existsSync(f, BundledRoot)
                                                /\ isDirectory(f, BundledRoot)
                              THEN <<BundledRoot>> ELSE <<>>),
         writablePaths |-> user.writablePaths]

\* The lists of a manager made with DEVSKILLS_SKILLS_PATH unset.
newSkillPaths(f, extraPaths, includeBundled) ==
    newSkillManager(f, extraPaths, <<>>, includeBundled).skillPaths
newWritablePaths(f, extraPaths) ==
    newSkillManager(f, extraPaths, <<>>, TRUE).writablePaths

\* getWritablePaths: a copy of writablePaths
getWritablePaths(paths) == Returned("getWritablePaths", <<>>, paths, {})

\* PromptManager's constructor: the prompts/ directories that exist.
newPromptPaths(f, extraPaths, includeBundled) ==
    SelectSeq([i \in 1..Len(extraPaths) |-> join(extraPaths[i], "prompts")],
              LAMBDA p : existsSync(f, p) /\ isDirectory(f, p))
        \o (IF includeBundled /\ existsSync(f, join(BundledRoot, "prompts"))
                              /\ isDirectory(f, join(BundledRoot, "prompts"))
            THEN <<join(BundledRoot, "prompts")>> ELSE <<>>)

(***************************************************************************)
(* The documents the environment writes.  Descriptions and bodies name the *)
(* root they are written under, so that a result shows where it came from. *)
(***************************************************************************)
Field(k, v) == [x \in {k} |-> v]

FmNames == {"a", "b"}

Frontmatters(root) ==
    LET desc == Field("description", "from " \o root[1])
    IN  {EmptyMap, desc} \cup { MapSetAll(Field("name", n), desc) : n \in FmNames }

SkillTexts(root) ==
    {[fm |-> "invalid", map |-> EmptyMap, body |-> "skill of " \o root[1]]}
    \cup { [fm |-> "map", map |-> m, body |-> "skill of " \o root[1]] :
             m \in Frontmatters(root) }

DeclaredArguments(root) ==
    [valid |-> TRUE,
     args |-> [order |-> <<"x">>,
               spec |-> Field("x", Field("description", "from " \o root[1]))]]

PromptTexts(root) ==
    LET body == "do {{" \o root[1] \o "}} and {{x}}"
    IN  {[fm |-> "invalid", map |-> EmptyMap, body |-> body]}
        \cup { [fm |-> "map", map |-> m, body |-> body] : m \in Frontmatters(root) }
        \cup {[fm |-> "map",
               map |-> Field("arguments", DeclaredArguments(root)),
               body |-> body]}

RawText(root) == [fm |-> "none", map |-> EmptyMap, body |-> "file of " \o root[1]]

(***************************************************************************)
(* Initial state: the bundled root ships one skill with a script and one   *)
(* prompt; the user root has empty skills/ and prompts/ directories.       *)
(***************************************************************************)
BundledSkill ==
    [fm |-> "map",
     map |-> MapSetAll(Field("name", "a"), Field("description", "from bundled")),
     body |-> "skill of bundled"]

BundledPrompt ==
    [fm |-> "map",
     map |-> MapSetAll(Field("name", "a"), Field("description", "from bundled")),
     body |-> "do {{bundled}} and {{x}}"]

InitFs ==
    [p \in AllPaths |->
        IF p \in Roots \cup { join(r, d) : r \in Roots, d \in {"skills", "prompts"} }
        THEN Dir
        ELSE IF p \in {BundledRoot \o <<"skills", "a">>,
                       BundledRoot \o <<"skills", "a", "scripts">>}
        THEN Dir
        ELSE IF p = BundledRoot \o <<"skills", "a", "SKILL.md">>
        THEN File(BundledSkill)
        ELSE IF p = BundledRoot \o <<"skills", "a", "scripts", "run.sh">>
        THEN File(RawText(BundledRoot))
        ELSE IF p = BundledRoot \o <<"prompts", "a.md">>
        THEN File(BundledPrompt)
        ELSE Absent]

NoResult == Returned("none", <<>>, <<>>, {})

(***************************************************************************)
(* gitSource                                                               *)
(***************************************************************************)
\* source.indexOf("#"), 1-based; 0 when there is none
RECURSIVE indexOf(_, _)
indexOf(s, c) ==
    IF Len(s) = 0 THEN 0
    ELSE IF Head(s) = c THEN 1
    ELSE LET n == indexOf(Tail(s), c) IN IF n = 0 THEN 0 ELSE n + 1

Null == "<null>"

parseGitUrl(source) ==
    LET hashIndex == indexOf(source, "#")
    IN  IF hashIndex = 0 THEN [url |-> source, ref |-> Null]
        ELSE [url |-> SubSeq(source, 1, hashIndex - 1),
              ref |-> SubSeq(source, hashIndex + 1, Len(source))]

\* A test that knows the SSH form only.
isGitUrlSshOnly(source) == startsWith(source, "git@")

\* A test that looks for .git at the end of the whole source.
isGitUrlWholeSuffix(source) ==
    startsWith(source, "git@")
        \/ (startsWith(source, "https://") /\ endsWith(source, ".git"))

isGitUrl(source) ==
    IF startsWith(source, "git@") THEN TRUE
    ELSE IF startsWith(source, "https://")
    THEN LET hashIndex == indexOf(source, "#")
             urlPart == IF hashIndex = 0 THEN source
                        ELSE SubSeq(source, 1, hashIndex - 1)
         IN  endsWith(urlPart, ".git")
    ELSE FALSE

\* The first 12 hex digits of SHA-256, taken to be free of collisions.
sha256Hex12(cacheKey) == "<" \o cacheKey \o ">"

getSkillkitHome == "~/.skillkit"

\* A cache directory named after the url alone.
getCacheDirUrlOnly(url, ref) ==
    getSkillkitHome \o "/cache/repos/" \o sha256Hex12(url)

getCacheDir(url, ref) ==
    getSkillkitHome \o "/cache/repos/" \o sha256Hex12(url \o "#" \o ref)

(***************************************************************************)
(* git.  A remote has a default branch whose tip moves forward and a tag   *)
(* v1 on its first commit; a clone is on the default branch or detached.   *)
(***************************************************************************)
Urls == {"git@h:r.git", "https://h/r.git"}
Refs == {"HEAD", "v1", "nope"}
CacheDirs == { getCacheDir(u, r) : u \in Urls, r \in Refs }

NoClone == [kind |-> "absent", url |-> "", detached |-> FALSE, commit |-> 0, origin |-> 0]
EmptyDir == [kind |-> "empty", url |-> "", detached |-> FALSE, commit |-> 0, origin |-> 0]

Cmd(cmd, dir, arg, ok) == [cmd |-> cmd, dir |-> dir, arg |-> arg, ok |-> ok]
Ran(ok, c, cmd, dir, arg) == [ok |-> ok, cache |-> c, log |-> <<Cmd(cmd, dir, arg, ok)>>]

\* git clone "url" "dir": a failed clone leaves no directory behind.
gitClone(rem, c, url, dir) ==
    IF url \in DOMAIN rem /\ rem[url].reachable /\ c[dir].kind # "repo"
    THEN Ran(TRUE, [c EXCEPT ![dir] = [kind |-> "repo", url |-> url,
                                       detached |-> FALSE,
                                       commit |-> rem[url].tip,
                                       origin |-> rem[url].tip]],
             "clone", dir, url)
    ELSE Ran(FALSE, c, "clone", dir, url)

\* git -C "dir" fetch --all
gitFetch(rem, c, dir) ==
    IF c[dir].kind = "repo" /\ rem[c[dir].url].reachable
    THEN Ran(TRUE, [c EXCEPT ![dir].origin = rem[c[dir].url].tip],
             "fetch", dir, "--all")
    ELSE Ran(FALSE, c, "fetch", dir, "--all")

\* git -C "dir" checkout "ref"
gitCheckout(c, dir, ref) ==
    IF c[dir].kind # "repo" THEN Ran(FALSE, c, "checkout", dir, ref)
    ELSE IF ref = "HEAD" THEN Ran(TRUE, c, "checkout", dir, ref)
    ELSE IF ref = "v1"
    THEN Ran(TRUE, [c EXCEPT ![dir].detached = TRUE, ![dir].commit = 1],
             "checkout", dir, ref)
    ELSE Ran(FALSE, c, "checkout", dir, ref)

\* git -C "dir" pull --ff-only: fails on a detached HEAD
gitPull(rem, c, dir) ==
    IF c[dir].kind = "repo" /\ ~c[dir].detached /\ rem[c[dir].url].reachable
    THEN Ran(TRUE, [c EXCEPT ![dir].commit = rem[c[dir].url].tip,
                             ![dir].origin = rem[c[dir].url].tip],
             "pull", dir, "--ff-only")
    ELSE Ran(FALSE, c, "pull", dir, "--ff-only")

Outcome(ok, value, error, c, log) ==
    [ok |-> ok, value |-> value, error |-> error, cache |-> c, log |-> log]

\* ensureGitInstalled: git --version
ensureGitInstalled(inst) == <<Cmd("--version", "", "", inst)>>

cloneOrUpdateExisting(inst, rem, c, url, ref, isExisting) ==
    LET cacheDir == getCacheDir(url, ref)
        version == ensureGitInstalled(inst)
    IN  IF ~inst THEN Outcome(FALSE, "", "GitNotInstalledError", c, version)
        ELSE IF isExisting
        THEN LET fetched == gitFetch(rem, c, cacheDir)
                 checked == gitCheckout(fetched.cache, cacheDir, ref)
                 pulled == gitPull(rem, checked.cache, cacheDir)
             IN  IF ~fetched.ok
                 THEN Outcome(FALSE, "", "GitCloneError", fetched.cache,
                              version \o fetched.log)
                 ELSE IF ~checked.ok
                 THEN Outcome(FALSE, "", "GitCloneError", checked.cache,
                              version \o fetched.log \o checked.log)
                 ELSE Outcome(TRUE, cacheDir, "", pulled.cache,
                              version \o fetched.log \o checked.log \o pulled.log)
        ELSE LET cloned == gitClone(rem, c, url, cacheDir)
                 checked == gitCheckout(cloned.cache, cacheDir, ref)
             IN  IF ~cloned.ok
                 THEN Outcome(FALSE, "", "GitCloneError", cloned.cache,
                              version \o cloned.log)
                 ELSE IF ~checked.ok
                 THEN Outcome(FALSE, "", "GitCloneError", checked.cache,
                              version \o cloned.log \o checked.log)
                 ELSE Outcome(TRUE, cacheDir, "", checked.cache,
                              version \o cloned.log \o checked.log)

\* A clone attempted whether or not the cache directory exists.
cloneOrUpdateAlwaysClone(inst, rem, c, url, ref) ==
    cloneOrUpdateExisting(inst, rem, c, url, ref, FALSE)

cloneOrUpdate(inst, rem, c, url, ref) ==
    cloneOrUpdateExisting(inst, rem, c, url, ref,
                          c[getCacheDir(url, ref)].kind # "absent")

Idle == [pc |-> "idle", sources |-> <<>>, resolved |-> <<>>, error |-> ""]

InitGit ==
    /\ gitInstalled = TRUE
    /\ remote = [u \in Urls |-> [reachable |-> TRUE, tip |-> 1]]
    /\ cache = [d \in CacheDirs |-> NoClone]
    /\ gitLog = <<>>
    /\ gitOps = 0
    /\ calls = 0
    /\ resolve = Idle

InitIndex ==
    /\ fs = InitFs
    /\ fsOps = 0
    /\ skillPaths = newSkillPaths(InitFs, <<UserRoot>>, TRUE)
    /\ writablePaths = newWritablePaths(InitFs, <<UserRoot>>)
    /\ promptPaths = newPromptPaths(InitFs, <<UserRoot>>, TRUE)
    /\ result = NoResult
    /\ InitGit

(***************************************************************************)
(* The environment changes the filesystem (at most MaxFsOps times).        *)
(***************************************************************************)
Prefixes(p) == { SubSeq(p, 1, n) : n \in 1..Len(p) }
IsUnder(q, p) == Len(q) >= Len(p) /\ SubSeq(q, 1, Len(p)) = p

\* mkdirSync(p, {recursive: true})
CanMkdirP(f, p) == \A q \in Prefixes(p) : ~isFile(f, q)
mkdirP(f, p) == [q \in DOMAIN f |-> IF q \in Prefixes(p) THEN Dir ELSE f[q]]

\* writeFileSync(p, text)
CanWrite(f, p) == isDirectory(f, SubSeq(p, 1, Len(p) - 1)) /\ ~isDirectory(f, p)
writeFile(f, p, text) == [f EXCEPT ![p] = File(text)]

\* createTestSkill of the tests: mkdir -p the skill directory, write SKILL.md.
CreateSkill(root, item, text) ==
    LET skillDir == root \o <<"skills", item>>
        made == mkdirP(fs, skillDir)
    IN  /\ fsOps < MaxFsOps
        /\ result = NoResult
        /\ CanMkdirP(fs, skillDir)
        /\ CanWrite(made, join(skillDir, "SKILL.md"))
        /\ fs' = writeFile(made, join(skillDir, "SKILL.md"), text)
        /\ fsOps' = fsOps + 1
        /\ UNCHANGED <<skillPaths, writablePaths, promptPaths, result, gitVars>>

\* createTestPrompt of the tests: mkdir -p prompts/, write the file.
CreatePrompt(root, item, text) ==
    LET promptsDir == join(root, "prompts")
        made == mkdirP(fs, promptsDir)
    IN  /\ fsOps < MaxFsOps
        /\ result = NoResult
        /\ CanMkdirP(fs, promptsDir)
        /\ CanWrite(made, join(promptsDir, item))
        /\ fs' = writeFile(made, join(promptsDir, item), text)
        /\ fsOps' = fsOps + 1
        /\ UNCHANGED <<skillPaths, writablePaths, promptPaths, result, gitVars>>

\* A scripts/ or references/ file, as the tests add one: mkdir -p, write.
AddSubFile(root, item, sub, filename) ==
    LET subDir == root \o <<"skills", item, sub>>
        made == mkdirP(fs, subDir)
    IN  /\ fsOps < MaxFsOps
        /\ result = NoResult
        /\ CanMkdirP(fs, subDir)
        /\ CanWrite(made, join(subDir, filename))
        /\ fs' = writeFile(made, join(subDir, filename), RawText(root))
        /\ fsOps' = fsOps + 1
        /\ UNCHANGED <<skillPaths, writablePaths, promptPaths, result, gitVars>>

\* A directory alone: a skill directory without SKILL.md, an empty scripts/, ...
Mkdir(p) ==
    /\ fsOps < MaxFsOps
    /\ result = NoResult
    /\ ~existsSync(fs, p)
    /\ CanMkdirP(fs, p)
    /\ fs' = mkdirP(fs, p)
    /\ fsOps' = fsOps + 1
    /\ UNCHANGED <<skillPaths, writablePaths, promptPaths, result, gitVars>>

\* chmod a-r on a file
MakeUnreadable(p) ==
    /\ fsOps < MaxFsOps
    /\ result = NoResult
    /\ canRead(fs, p)
    /\ fs' = [fs EXCEPT ![p].readable = FALSE]
    /\ fsOps' = fsOps + 1
    /\ UNCHANGED <<skillPaths, writablePaths, promptPaths, result, gitVars>>

\* rmSync(p, {recursive: true})
RmRf(p) ==
    /\ fsOps < MaxFsOps
    /\ result = NoResult
    /\ existsSync(fs, p)
    /\ fs' = [q \in DOMAIN fs |-> IF IsUnder(q, p) THEN Absent ELSE fs[q]]
    /\ fsOps' = fsOps + 1
    /\ UNCHANGED <<skillPaths, writablePaths, promptPaths, result, gitVars>>

SkillDirs == { r \o <<"skills", i>> : r \in Roots, i \in SkillItems }
MkdirPaths ==
    { UserRoot \o <<"skills", i>> : i \in SkillItems }
        \cup { UserRoot \o <<"skills", i, sub>> :
                 i \in SkillItems, sub \in SubDirs \cup {"SKILL.md"} }
        \cup { UserRoot \o <<"prompts", i>> : i \in PromptItems }
DocPaths ==
    { join(d, "SKILL.md") : d \in SkillDirs }
        \cup { r \o <<"prompts", i>> : r \in Roots, i \in PromptItems }
RmPaths ==
    Roots \cup { join(r, d) : r \in Roots, d \in {"skills", "prompts"} }
          \cup SkillDirs

\* The bundled root ships with the package: the environment writes under the
\* user root only, and may remove or protect anything.
Environment ==
    \/ \E i \in SkillItems : \E t \in SkillTexts(UserRoot) : CreateSkill(UserRoot, i, t)
    \/ \E i \in PromptItems : \E t \in PromptTexts(UserRoot) : CreatePrompt(UserRoot, i, t)
    \/ \E i \in SkillItems, sub \in SubDirs, n \in Filenames :
          AddSubFile(UserRoot, i, sub, n)
    \/ \E p \in MkdirPaths : Mkdir(p)
    \/ \E p \in DocPaths : MakeUnreadable(p)
    \/ \E p \in RmPaths : RmRf(p)

(***************************************************************************)
(* The calls on the managers.                                              *)
(***************************************************************************)
PromptNames == {"a", "b", "n"}

\* A call that makes the skills directory of the user root on its way.
CallCreating(r) ==
    /\ result = NoResult
    /\ result' = r
    /\ fs' = mkdirP(fs, UserRoot \o <<"skills", "b">>)
    /\ UNCHANGED <<fsOps, skillPaths, writablePaths, promptPaths, gitVars>>

\* A call is made when the previous response has been delivered.
Call(r) ==
    /\ result = NoResult
    /\ result' = r
    /\ UNCHANGED <<fsVars, gitVars>>

\* The response is delivered to the caller.
Deliver ==
    /\ result # NoResult
    /\ result' = NoResult
    /\ UNCHANGED <<fsVars, gitVars>>

ListSkills == Call(Returned("listSkills", <<>>, listAllSkills(fs, skillPaths), {}))
GetContent(name) == Call(getContent(fs, skillPaths, name))
GetScript(skill, filename) == Call(getScript(fs, skillPaths, skill, filename))
GetReference(skill, filename) == Call(getReference(fs, skillPaths, skill, filename))
ListPrompts == Call(Returned("listPrompts", <<>>, listAllPrompts(fs, promptPaths), {}))
GetBody(name) == Call(getBody(fs, promptPaths, name))
GetArguments(name) == Call(getArguments(fs, promptPaths, name))

NextIndex ==
    \/ Environment
    \/ ListSkills
    \/ \E n \in SkillItems : GetContent(n)
    \/ \E n \in SkillItems, x \in Filenames : GetScript(n, x)
    \/ \E n \in SkillItems, x \in Filenames : GetReference(n, x)
    \/ ListPrompts
    \/ \E n \in PromptNames : GetBody(n)
    \/ \E n \in PromptNames : GetArguments(n)
    \/ Deliver

SpecIndex == InitIndex /\ [][NextIndex]_vars


(***************************************************************************)
(* resolveSkillSources and the direct calls of cloneOrUpdate.              *)
(***************************************************************************)
AtPos(pos, log) == [i \in 1..Len(log) |-> [pos |-> pos, cmd |-> log[i]]]

\* cloneOrUpdate(url, ref), called on its own.  tree is the clone the call
\* left in its cache directory; before is the call made just before this one
\* with nothing happening in between, if there was one.
CloneOrUpdate(url, ref) ==
    LET out == cloneOrUpdate(gitInstalled, remote, cache, url, ref)
        args == <<url, ref>>
    IN  /\ calls < MaxCalls
        /\ resolve.pc = "idle"
        /\ calls' = calls + 1
        /\ cache' = out.cache
        /\ gitLog' = AtPos(0, out.log)
        /\ result' = [op |-> "cloneOrUpdate", args |-> args, ok |-> out.ok,
                      value |-> out.value, error |-> out.error,
                      tree |-> out.cache[getCacheDir(url, ref)],
                      before |-> IF result.op = "cloneOrUpdate"
                                 THEN [args |-> result.args, ok |-> result.ok,
                                       value |-> result.value, tree |-> result.tree]
                                 ELSE [args |-> <<>>, ok |-> FALSE, value |-> "",
                                       tree |-> NoClone]]
        /\ UNCHANGED <<fsVars, gitInstalled, remote, gitOps, resolve>>

Sources ==
    {"~/rel", "https://h/page", "git@h:r.git",
     "https://h/r.git#v1", "https://h/r.git#nope"}

SourceLists == UNION { [1..n -> Sources] : n \in 0..MaxSources }

ResolveStart(sources) ==
    /\ calls < MaxCalls
    /\ resolve.pc = "idle"
    /\ calls' = calls + 1
    /\ resolve' = [pc |-> "running", sources |-> sources, resolved |-> <<>>,
                   error |-> ""]
    /\ gitLog' = <<>>
    /\ result' = NoResult
    /\ UNCHANGED <<fsVars, gitInstalled, remote, cache, gitOps>>

\* One iteration of the loop of resolveSkillSources; an error cloneOrUpdate
\* throws leaves the function (failFast), there being no try around the call.
ResolveStepOn(failFast) ==
    /\ resolve.pc = "running"
    /\ Len(resolve.resolved) < Len(resolve.sources)
    /\ LET pos == Len(resolve.resolved) + 1
           source == resolve.sources[pos]
       IN  IF isGitUrl(source)
           THEN LET parsed == parseGitUrl(source)
                    out == cloneOrUpdate(gitInstalled, remote, cache, parsed.url,
                                         IF parsed.ref = Null THEN "HEAD"
                                         ELSE parsed.ref)
                IN  /\ cache' = out.cache
                    /\ gitLog' = gitLog \o AtPos(pos, out.log)
                    /\ resolve' =
                         IF out.ok \/ ~failFast
                         THEN [resolve EXCEPT !.resolved = Append(@, out.value)]
                         ELSE [resolve EXCEPT !.pc = "failed", !.error = out.error]
           ELSE /\ resolve' = [resolve EXCEPT !.resolved = Append(@, source)]
                /\ UNCHANGED <<cache, gitLog>>
    /\ UNCHANGED <<fsVars, result, gitInstalled, remote, gitOps, calls>>

\* A loop that goes on to the next source after an error.
ResolveStepKeepGoing == ResolveStepOn(FALSE)

ResolveStep == ResolveStepOn(TRUE)

\* return resolved
ResolveReturn ==
    /\ resolve.pc = "running"
    /\ Len(resolve.resolved) = Len(resolve.sources)
    /\ resolve' = [resolve EXCEPT !.pc = "done"]
    /\ UNCHANGED <<fsVars, result, gitInstalled, remote, cache, gitLog, gitOps, calls>>

\* The caller has taken the list, or the error.
ResolveDeliver ==
    /\ resolve.pc \in {"done", "failed"}
    /\ resolve' = Idle
    /\ UNCHANGED <<fsVars, result, gitInstalled, remote, cache, gitLog, gitOps, calls>>

(***************************************************************************)
(* The environment of git: the network, the remotes, the cache directory.  *)
(***************************************************************************)
GitEnv(inst, rem, c) ==
    /\ gitOps < MaxGitOps
    /\ gitOps' = gitOps + 1
    /\ gitInstalled' = inst
    /\ remote' = rem
    /\ cache' = c
    /\ result' = NoResult
    /\ UNCHANGED <<fsVars, gitLog, calls, resolve>>

SetReachable(url) ==
    GitEnv(gitInstalled, [remote EXCEPT ![url].reachable = ~@], cache)

Push(url) ==
    /\ remote[url].tip < MaxCommit
    /\ GitEnv(gitInstalled, [remote EXCEPT ![url].tip = @ + 1], cache)

SetGitInstalled == GitEnv(~gitInstalled, remote, cache)

\* The operator clears a cache directory.
ClearCache(dir) ==
    /\ cache[dir].kind # "absent"
    /\ GitEnv(gitInstalled, remote, [cache EXCEPT ![dir] = NoClone])

\* A directory is left without a repository in it.
LeaveEmptyDir(dir) ==
    /\ cache[dir].kind = "absent"
    /\ GitEnv(gitInstalled, remote, [cache EXCEPT ![dir] = EmptyDir])

NextGit ==
    \/ \E u \in Urls, r \in Refs : CloneOrUpdate(u, r)
    \/ \E l \in SourceLists : ResolveStart(l)
    \/ ResolveStep
    \/ ResolveReturn
    \/ ResolveDeliver
    \/ \E u \in Urls : SetReachable(u)
    \/ \E u \in Urls : Push(u)
    \/ SetGitInstalled
    \/ \E d \in CacheDirs : ClearCache(d)
    \/ \E d \in CacheDirs : LeaveEmptyDir(d)

InitGitSpec ==
    /\ fs = InitFs
    /\ fsOps = 0
    /\ skillPaths = newSkillPaths(InitFs, <<UserRoot>>, TRUE)
    /\ writablePaths = newWritablePaths(InitFs, <<UserRoot>>)
    /\ promptPaths = newPromptPaths(InitFs, <<UserRoot>>, TRUE)
    /\ result = NoResult
    /\ InitGit

SpecGit == InitGitSpec /\ [][NextGit]_vars


(***************************************************************************)
(* The functions of gitSource on their own (specification SpecSource).     *)
(* A source is a scheme or path prefix, a host and path, a suffix and a    *)
(* fragment.                                                               *)
(***************************************************************************)
SourcePrefixes == {"git@", "https://", "http://", "/", "~/", "./", ""}
SourcePaths == {"h/r", "h:o/r"}
SourceSuffixes == {".git", "", ".gi"}
SourceFragments == {"", "#v1", "#", "#x.git", "#a#b"}

SourceStrings ==
    { a \o b \o c \o d : a \in SourcePrefixes, b \in SourcePaths,
                         c \in SourceSuffixes, d \in SourceFragments }

\* The arguments getCacheDir is called with: any strings.
CacheUrls == Urls \cup {"git@h:r.git#a", "https://h/r"}
CacheRefs == Refs \cup {"b", "a#b", ""}

IsGitUrl(source) == Call(Returned("isGitUrl", <<source>>, isGitUrl(source), {}))
ParseGitUrl(source) ==
    Call(Returned("parseGitUrl", <<source>>, parseGitUrl(source), {}))
GetCacheDir(url, ref) ==
    Call(Returned("getCacheDir", <<url, ref>>, getCacheDir(url, ref), {}))

NextSource ==
    \/ \E source \in SourceStrings : IsGitUrl(source)
    \/ \E source \in SourceStrings : ParseGitUrl(source)
    \/ \E url \in CacheUrls, ref \in CacheRefs : GetCacheDir(url, ref)
    \/ Deliver

SpecSource == InitIndex /\ [][NextSource]_vars


(***************************************************************************)
(* The template engine on one prompt (specification SpecTemplate): the     *)
(* user root holds prompt a, written with some declared arguments and some *)
(* body, and the caller asks for its arguments, parses input against its   *)
(* schema and has values substituted.                                      *)
(***************************************************************************)
Obj(order, spec) == [order |-> order, spec |-> spec]

TemplateBodies ==
    {"Review {{language}} code: {{code}}",
     "{{a}} and {{b}} and {{a}}",
     "{{b}}{{a}}",
     "{{ a }} {a} {{a} {{a-b}}",
     "call {{toString}}",
     "{{2}} {{x}} {{1}}",
     "{{{{a}}b}}",
     "plain"}

\* The values of arguments: in the frontmatter, absent, rejected by
\* PromptArgumentsSchema, or a map of definitions.
TemplateDeclared ==
    {Obj(<<"a">>, [a |-> EmptyMap]),
     Obj(<<"a", "unused">>,
         [a |-> [description |-> "d", default |-> StringValue("dflt")],
          unused |-> [type |-> "boolean"]]),
     Obj(<<"b", "a">>,
         [b |-> [type |-> "number"],
          a |-> [type |-> "boolean", default |-> BooleanValue(TRUE)]]),
     Obj(<<"language", "n">>,
         [language |-> [default |-> StringValue("ts")],
          n |-> [type |-> "number", default |-> NumberValue(10)]])}

TemplateFrontmatters ==
    {Field("name", "a"),
     MapSetAll(Field("name", "a"),
               Field("arguments", [valid |-> FALSE, args |-> NoArguments]))}
    \cup { MapSetAll(Field("name", "a"),
                     Field("arguments", [valid |-> TRUE, args |-> d])) :
             d \in TemplateDeclared }

TemplateTexts ==
    { [fm |-> "map", map |-> m, body |-> b] :
        m \in TemplateFrontmatters, b \in TemplateBodies }

TemplatePrompt == UserRoot \o <<"prompts", "a.md">>

\* The args a prompt is called with.
SubstituteArgs ==
    {Obj(<<>>, EmptyMap),
     Obj(<<"a">>, [a |-> StringValue("x")]),
     Obj(<<"a", "b">>, [a |-> StringValue("x"), b |-> NumberValue(42)]),
     Obj(<<"b", "a">>, [a |-> StringValue("y"), b |-> BooleanValue(TRUE)]),
     Obj(<<"a", "b">>, [a |-> StringValue("{{b}}"), b |-> StringValue("z")]),
     Obj(<<"b", "a">>, [a |-> StringValue("{{b}}"), b |-> StringValue("z")]),
     Obj(<<"b", "a">>, [a |-> StringValue(""), b |-> StringValue("X")]),
     Obj(<<"a">>, [a |-> StringValue("{{a}}!")]),
     Obj(<<"a">>, [a |-> StringValue("$$1")]),
     Obj(<<"a">>, [a |-> StringValue("$&")]),
     Obj(<<"code", "language">>,
         [code |-> StringValue("x"), language |-> StringValue("ts")]),
     Obj(<<"zz">>, [zz |-> StringValue("q")])}

\* The input parsed against the schema.
ParseInputs ==
    {Obj(<<>>, EmptyMap),
     Obj(<<"code">>, [code |-> StringValue("x")]),
     Obj(<<"code", "language">>,
         [code |-> StringValue("x"), language |-> StringValue("ts")]),
     Obj(<<"a">>, [a |-> StringValue("x")]),
     Obj(<<"a">>, [a |-> BooleanValue(FALSE)]),
     Obj(<<"b">>, [b |-> NumberValue(5)]),
     Obj(<<"b">>, [b |-> StringValue("5")]),
     Obj(<<"a", "b">>, [a |-> StringValue("x"), b |-> StringValue("y")]),
     Obj(<<"unused">>, [unused |-> BooleanValue(TRUE)]),
     Obj(<<"language", "n">>, [language |-> StringValue("py"), n |-> NumberValue(3)])}

InitTemplate ==
    /\ \E text \in TemplateTexts : fs = writeFile(InitFs, TemplatePrompt, text)
    /\ fsOps = 0
    /\ skillPaths = newSkillPaths(InitFs, <<UserRoot>>, TRUE)
    /\ writablePaths = newWritablePaths(InitFs, <<UserRoot>>)
    /\ promptPaths = newPromptPaths(InitFs, <<UserRoot>>, TRUE)
    /\ result = NoResult
    /\ InitGit

GetMergedArguments(name) ==
    LET mergedArgs == getMergedArguments(fs, promptPaths, name)
    IN  /\ mergedArgs.ok
        /\ Call(Returned("getMergedArguments", <<name>>, mergedArgs.args,
                         {mergedArgs.src}))

\* z.object(buildArgsSchema(name)).safeParse(input)
ParseArgs(name, input) ==
    LET schema == buildArgsSchema(fs, promptPaths, name)
    IN  /\ schema.ok
        /\ Call(Returned("parseArgs", <<name, input>>,
                         [shape |-> schema.shape,
                          parsed |-> zodParse(schema.shape, input)], {}))

GetBodyWithArgs(name, args) == Call(getBodyWithArgs(fs, promptPaths, name, args))

NextTemplate ==
    \/ GetMergedArguments("a")
    \/ \E input \in ParseInputs : ParseArgs("a", input)
    \/ \E args \in SubstituteArgs : GetBodyWithArgs("a", args)
    \/ Deliver

SpecTemplate == InitTemplate /\ [][NextTemplate]_vars


(***************************************************************************)
(* SpecValidate: one file under the user root, a prompt or the SKILL.md of *)
(* a skill, is validated.                                                  *)
(***************************************************************************)
RECURSIVE Repeat(_, _)
Repeat(s, n) ==
    IF n = 0 THEN ""
    ELSE LET half == Repeat(s, n \div 2)
         IN  half \o half \o (IF n % 2 = 1 THEN s ELSE "")

ValidateNames ==
    {StringValue("my-skill"), StringValue("a1"), StringValue(""), StringValue("  "),
     StringValue(" a1 "), StringValue("My-Skill"), StringValue("a_b"),
     StringValue("a b"), StringValue("-a"), StringValue("a-"), StringValue("a--b"),
     StringValue(Repeat("a", MAX_NAME_LENGTH)),
     StringValue(Repeat("a", MAX_NAME_LENGTH + 1)),
     NumberValue(7), NullValue}

ValidateDescriptions ==
    {StringValue("Does things"), StringValue(""), StringValue("a <b> c"),
     StringValue("x>y"),
     StringValue(Repeat("d", MAX_DESCRIPTION_LENGTH)),
     StringValue(Repeat("d", MAX_DESCRIPTION_LENGTH + 1)),
     StringValue(Repeat("d", MAX_DESCRIPTION_LENGTH) \o "  "),
     BooleanValue(TRUE)}

ValidateSkillFrontmatters ==
    { [name |-> n, description |-> d] : n \in ValidateNames, d \in ValidateDescriptions }
    \cup {EmptyMap,
          [name |-> StringValue("a1")],
          [description |-> StringValue("Does things")],
          [name |-> StringValue("a1"), description |-> StringValue("Does things"),
           license |-> StringValue("MIT")],
          [name |-> StringValue("a1"), description |-> StringValue("Does things"),
           version |-> NumberValue(1)],
          [name |-> StringValue("A"), version |-> NumberValue(1),
           author |-> StringValue("me")]}

ValidateSkillTexts ==
    { [fm |-> kind, map |-> EmptyMap, body |-> "skill"] :
        kind \in {"none", "unclosed", "scalar", "invalid"} }
    \cup { [fm |-> "map", map |-> m, body |-> "skill"] : m \in ValidateSkillFrontmatters }

\* PromptArgumentSchema.safeParse(argDef).success: an object whose type, if
\* any, is one of the three names and whose default, if any, is a string, a
\* number or a boolean (the descriptions of the model are all strings).
PromptArgumentSchema(argDef) ==
    /\ argDef # NullValue
    /\ "type" \in DOMAIN argDef => argDef["type"] \in {"string", "number", "boolean"}
    /\ "default" \in DOMAIN argDef =>
          argDef["default"].t \in {"string", "number", "boolean"}

\* PromptArgumentsSchema.safeParse(args).success
PromptArgumentsSchema(args) ==
    \A k \in DOMAIN args.spec : PromptArgumentSchema(args.spec[k])

ValidateDeclared ==
    {Obj(<<"code">>, [code |-> [description |-> "Code to review"]]),
     Obj(<<"language">>, [language |-> [description |-> "Language"]]),
     Obj(<<"code", "verbose">>,
         [code |-> [description |-> "Code"], verbose |-> [description |-> "Unused arg"]]),
     Obj(<<"count">>, [count |-> [type |-> "integer", description |-> "Count"]]),
     Obj(<<"code">>, [code |-> EmptyMap]),
     Obj(<<"code", "lang">>,
         [code |-> NullValue,
          lang |-> [description |-> "Language", default |-> StringValue("ts")]]),
     Obj(<<"code", "lang">>,
         [code |-> [type |-> "string", description |-> "Code"],
          lang |-> [description |-> "Language", default |-> StringValue("ts")]]),
     Obj(<<"name">>, [name |-> [type |-> "string", description |-> ""]]),
     Obj(<<"">>, Field("", [description |-> "d"])),
     Obj(<<"abcd", "ab">>, [abcd |-> [description |-> "d"], ab |-> [type |-> "number"]]),
     Obj(<<"lang", "language">>,
         [lang |-> [description |-> "d"], language |-> [description |-> "d"]])}

ValidateBodies ==
    {"Review: {{code}}", "Hello {{name}}", "Review {{langauge}} code",
     "Count: {{count}}", "{{ab}}", "{{a}} {{abc}} {{xyzzy}}",
     "  {{code}} and {{cod}}\n", "{{ code }} {{a-b}}", "plain"}

ValidatePromptTexts ==
    { [fm |-> kind, map |-> EmptyMap, body |-> b] :
        kind \in {"none", "scalar", "invalid"}, b \in ValidateBodies }
    \cup { [fm |-> "map", map |-> Field("name", "a"), body |-> b] : b \in ValidateBodies }
    \cup { [fm |-> "map",
            map |-> MapSetAll(Field("name", "a"),
                              Field("arguments",
                                    [valid |-> PromptArgumentsSchema(d), args |-> d])),
            body |-> b] : d \in ValidateDeclared, b \in ValidateBodies }

ValidatedSkill == UserRoot \o <<"skills", "a">>
ValidatedSkillMd == join(ValidatedSkill, "SKILL.md")

\* chmod a-r
unreadable(f, p) == [f EXCEPT ![p].readable = FALSE]

InitValidate ==
    /\ \/ fs = InitFs
       \/ \E text \in ValidatePromptTexts :
            \/ fs = writeFile(InitFs, TemplatePrompt, text)
            \/ /\ text.fm = "none"
               /\ fs = unreadable(writeFile(InitFs, TemplatePrompt, text), TemplatePrompt)
       \/ \E text \in ValidateSkillTexts :
            LET made == writeFile(mkdirP(InitFs, ValidatedSkill), ValidatedSkillMd, text)
            IN  \/ fs = made
                \/ /\ text.fm = "none"
                   /\ fs = unreadable(made, ValidatedSkillMd)
    /\ fsOps = 0
    /\ skillPaths = newSkillPaths(InitFs, <<UserRoot>>, TRUE)
    /\ writablePaths = newWritablePaths(InitFs, <<UserRoot>>)
    /\ promptPaths = newPromptPaths(InitFs, <<UserRoot>>, TRUE)
    /\ result = NoResult
    /\ InitGit

ValidateSkill(skillPath) == Call(validateSkill(fs, skillPath))
ValidatePrompt(promptPath) == Call(validatePrompt(fs, promptPath))

NextValidate ==
    \/ ValidateSkill(ValidatedSkill)
    \/ ValidatePrompt(TemplatePrompt)
    \/ GetArguments("a")
    \/ Deliver

SpecValidate == InitValidate /\ [][NextValidate]_vars

(***************************************************************************)
(* SpecRoots: a SkillManager is made from explicit paths and the paths of  *)
(* DEVSKILLS_SKILLS_PATH, and asked for its writable paths.  result starts *)
(* as the record of the construction.                                      *)
(***************************************************************************)
RootCandidates ==
    {UserRoot, join(UserRoot, "skills"), BundledRoot, <<"missing">>,
     BundledRoot \o <<"prompts", "a.md">>}
RootLists ==
    {<<>>} \cup { <<p>> : p \in RootCandidates }
           \cup { <<p, q>> : p \in RootCandidates, q \in RootCandidates }
EnvLists == RootLists \cup {<<<<>>, UserRoot>>, <<UserRoot, <<>>, join(UserRoot, "skills")>>}

InitRoots ==
    /\ fs = InitFs
    /\ fsOps = 0
    /\ \E extraPaths \in RootLists, envPaths \in EnvLists, includeBundled \in BOOLEAN :
         LET manager == newSkillManager(InitFs, extraPaths, envPaths, includeBundled)
         IN  /\ skillPaths = manager.skillPaths
             /\ writablePaths = manager.writablePaths
             /\ result = Returned("constructor",
                                  <<extraPaths, envPaths, includeBundled>>, <<>>, {})
    /\ promptPaths = newPromptPaths(InitFs, <<UserRoot>>, TRUE)
    /\ InitGit

GetWritablePaths == Call(getWritablePaths(writablePaths))

\* The caller pushes a path on the array it was given.
Pushed == <<"pushed">>
CallerPushes ==
    /\ result.op = "getWritablePaths"
    /\ \A i \in 1..Len(result.value) : result.value[i] # Pushed
    /\ result' = [result EXCEPT !.value = Append(@, Pushed)]
    /\ UNCHANGED <<fsVars, gitVars>>

NextRoots ==
    \/ GetWritablePaths
    \/ CallerPushes
    \/ Deliver

SpecRoots == InitRoots /\ [][NextRoots]_vars

(***************************************************************************)
(* SpecServe: SpecIndex with the two remaining calls of the server,        *)
(* getWritablePaths and getBodyWithArgs.                                   *)
(***************************************************************************)
ServeArgs == {Obj(<<"x">>, [x |-> StringValue("v")])}

NextServe ==
    \/ NextIndex
    \/ GetWritablePaths
    \/ \E n \in PromptNames, args \in ServeArgs : GetBodyWithArgs(n, args)

SpecServe == InitIndex /\ [][NextServe]_vars

(***************************************************************************)
(* SpecConfine: scripts and references are asked for by filenames that     *)
(* hold ".." and separators.                                               *)
(***************************************************************************)
ConfineFilenames ==
    {"run.sh", "doc.md", "sub/../run.sh", "./run.sh", "..", "../SKILL.md",
     "../references/doc.md", "../scripts/run.sh", "../../b/SKILL.md",
     "../../b/scripts/run.sh", "../../../prompts/a.md",
     "../../../../bundled/skills/a/SKILL.md", "../../../../missing/x", "/run.sh"}

\* A skill with SKILL.md, and if asked its scripts/run.sh and references/doc.md.
withSkill(f, root, item, withScript, withReference) ==
    LET skillDir == root \o <<"skills", item>>
        made == writeFile(mkdirP(f, skillDir), join(skillDir, "SKILL.md"),
                          [fm |-> "map", map |-> Field("name", item),
                           body |-> "skill of " \o root[1]])
        scripted == IF withScript
                    THEN writeFile(mkdirP(made, join(skillDir, "scripts")),
                                   skillDir \o <<"scripts", "run.sh">>, RawText(root))
                    ELSE made
    IN  IF withReference
        THEN writeFile(mkdirP(scripted, join(skillDir, "references")),
                       skillDir \o <<"references", "doc.md">>, RawText(root))
        ELSE scripted

InitConfine ==
    /\ \E scriptA, referenceA, skillB, scriptB \in BOOLEAN :
         LET withA == withSkill(InitFs, UserRoot, "a", scriptA, referenceA)
         IN  fs = IF skillB THEN withSkill(withA, UserRoot, "b", scriptB, FALSE)
                  ELSE withA
    /\ fsOps = 0
    /\ skillPaths = newSkillPaths(InitFs, <<UserRoot>>, TRUE)
    /\ writablePaths = newWritablePaths(InitFs, <<UserRoot>>)
    /\ promptPaths = newPromptPaths(InitFs, <<UserRoot>>, TRUE)
    /\ result = NoResult
    /\ InitGit

NextConfine ==
    \/ \E n \in SkillItems, x \in ConfineFilenames : GetScript(n, x)
    \/ \E n \in SkillItems, x \in ConfineFilenames : GetReference(n, x)
    \/ Deliver

SpecConfine == InitConfine /\ [][NextConfine]_vars

(***************************************************************************)
(* Properties of the index (specification SpecIndex).                      *)
(*                                                                         *)
(* What the filesystem holds, stated on the nodes themselves.              *)
(***************************************************************************)
\* root/skills/<key> is a directory, not named _*, with an entry SKILL.md
DefinesSkill(root, key) ==
    /\ SubSeq(key, 1, 1) # "_"
    /\ Node(fs, root \o <<"skills", key>>).type = "dir"
    /\ Node(fs, root \o <<"skills", key, "SKILL.md">>).type # "absent"

\* <promptsDir>/<key>.md is a regular file
DefinesPrompt(promptsDir, key) ==
    Node(fs, join(promptsDir, key \o ".md")).type = "file"

SkillDefiners(key) == { i \in 1..Len(skillPaths) : DefinesSkill(skillPaths[i], key) }
PromptDefiners(key) == { i \in 1..Len(promptPaths) : DefinesPrompt(promptPaths[i], key) }

SkillKeys == { k \in SkillItems : SkillDefiners(k) # {} }
PromptKeys == { k \in PromptNames : PromptDefiners(k) # {} }

First(S) == CHOOSE i \in S : \A j \in S : i <= j

SkillWinner(key) == skillPaths[First(SkillDefiners(key))] \o <<"skills", key>>
PromptWinner(key) == join(promptPaths[First(PromptDefiners(key))], key \o ".md")

\* The descriptions the copies of a document hold, other than the winning one.
SkillLoserDescriptions(key) ==
    { OrElse(fs[skillPaths[i] \o <<"skills", key, "SKILL.md">>].text.map,
             "description", "") :
        i \in SkillDefiners(key) \ {First(SkillDefiners(key))} }
PromptLoserDescriptions(key) ==
    { OrElse(fs[join(promptPaths[i], key \o ".md")].text.map, "description", "") :
        i \in PromptDefiners(key) \ {First(PromptDefiners(key))} }

SkillEntriesOf(key) ==
    { i \in 1..Len(result.value) : result.value[i].src[Len(result.value[i].src) - 1] = key }
PromptEntriesOf(key) ==
    { i \in 1..Len(result.value) :
        result.value[i].src[Len(result.value[i].src)] = key \o ".md" }

ShadowedSkills == { k \in SkillKeys : Cardinality(SkillDefiners(k)) > 1 }
ShadowedPrompts == { k \in PromptKeys : Cardinality(PromptDefiners(k)) > 1 }

\* Skills: every operation uses the winning copy alone.
ShadowingOfSkills ==
    /\ result.op = "listSkills" =>
         \A k \in ShadowedSkills :
            /\ Cardinality(SkillEntriesOf(k)) = 1
            /\ \A i \in SkillEntriesOf(k) :
                 /\ result.value[i].src = join(SkillWinner(k), "SKILL.md")
                 /\ result.value[i].description \notin SkillLoserDescriptions(k)
    /\ result.op = "getContent" /\ result.args[1] \in ShadowedSkills =>
         /\ result.reads \subseteq {join(SkillWinner(result.args[1]), "SKILL.md")}
         /\ result.ok =>
              /\ result.value.path = join(SkillWinner(result.args[1]), "SKILL.md")
              /\ result.value.text = fs[result.value.path].text
    /\ result.op \in {"getScript", "getReference"} /\ result.args[1] \in ShadowedSkills =>
         LET sub == IF result.op = "getScript" THEN "scripts" ELSE "references"
             subDir == join(SkillWinner(result.args[1]), sub)
         IN  /\ result.reads \subseteq {join(subDir, result.args[2])}
             /\ result.ok => /\ result.value.path = join(subDir, result.args[2])
                             /\ result.value.text = fs[result.value.path].text
             /\ \A i \in 1..Len(result.listed) :
                  Node(fs, join(subDir, result.listed[i])).type = "file"

\* Prompts: getBody and getArguments use the winning copy alone.
ShadowingOfPromptContent ==
    result.op \in {"getBody", "getArguments"} /\ result.args[1] \in ShadowedPrompts =>
        /\ result.reads \subseteq {PromptWinner(result.args[1])}
        /\ result.ok /\ result.op = "getBody" =>
             /\ result.value.path = PromptWinner(result.args[1])
             /\ result.value.text = fs[result.value.path].text.body

\* Prompts: the listing never shows a copy other than the winning one.
ShadowingOfPromptListing ==
    result.op = "listPrompts" =>
        \A k \in ShadowedPrompts : \A i \in PromptEntriesOf(k) :
            /\ result.value[i].src = PromptWinner(k)
            /\ result.value[i].description \notin PromptLoserDescriptions(k)
            /\ result.value[i].argsSrc \notin
                 { join(promptPaths[j], k \o ".md") :
                     j \in PromptDefiners(k) \ {First(PromptDefiners(k))} }

\* C1: winner-take-all shadowing.  For a key defined in more than one root,
\* listAll, getContent, getScript, getReference and getBody use only the copy
\* of the highest-priority root, the listing has exactly one entry for the
\* key, and nothing of a lower-priority copy is returned.
C1_WinnerTakeAll ==
    /\ ShadowingOfSkills
    /\ ShadowingOfPromptContent
    /\ ShadowingOfPromptListing
    /\ result.op = "listPrompts" =>
         \A k \in ShadowedPrompts : Cardinality(PromptEntriesOf(k)) = 1

\* C2: every name listAll returns is accepted by getContent (skills) and by
\* getBody (prompts): the call does not fail with "... not found".
C2_ListedNamesResolve ==
    /\ result.op = "listSkills" =>
         \A i \in 1..Len(result.value) :
            ~startsWith(getContent(fs, skillPaths, result.value[i].name).error,
                        "Skill '" \o result.value[i].name \o "' not found")
    /\ result.op = "listPrompts" =>
         \A i \in 1..Len(result.value) :
            ~startsWith(getBody(fs, promptPaths, result.value[i].name).error,
                        "Prompt '" \o result.value[i].name \o "' not found")

\* C3: listAll has exactly one entry per key of the index, and an entry whose
\* document cannot be read, has no parsable frontmatter or has no name falls
\* back to the key as its name, with a placeholder or empty description.
C3_ListAllNeverOmits ==
    /\ result.op = "listSkills" =>
         /\ Len(result.value) = Cardinality(SkillKeys)
         /\ \A k \in SkillKeys :
              /\ Cardinality(SkillEntriesOf(k)) = 1
              /\ LET doc == Node(fs, join(SkillWinner(k), "SKILL.md"))
                 IN  ~(doc.type = "file" /\ doc.readable /\ doc.text.fm = "map"
                        /\ "name" \in DOMAIN doc.text.map) =>
                       \A i \in SkillEntriesOf(k) : result.value[i].name = k
    /\ result.op = "listPrompts" =>
         /\ Len(result.value) = Cardinality(PromptKeys)
         /\ \A k \in PromptKeys :
              /\ Cardinality(PromptEntriesOf(k)) = 1
              /\ LET doc == Node(fs, PromptWinner(k))
                 IN  ~(doc.readable /\ doc.text.fm = "map"
                        /\ "name" \in DOMAIN doc.text.map) =>
                       \A i \in PromptEntriesOf(k) : result.value[i].name = k


Range(seq) == { seq[i] : i \in 1..Len(seq) }

IsAscending(seq) == \A i \in 1..(Len(seq) - 1) : StrLess(seq[i], seq[i + 1])

SkillOps == {"getContent", "getScript", "getReference"}
PromptOps == {"getBody", "getArguments"}

\* r is the not-found error for name, enumerating exactly keys in order
IsNotFound(r, message, keys) ==
    /\ ~r.ok
    /\ IsAscending(r.listed)
    /\ Range(r.listed) = keys
    /\ Len(r.listed) = Cardinality(keys)
    /\ r.error = message \o joinStr(r.listed, ", ")
    /\ r.reads = {}

\* C7: a call of getContent, getScript, getReference, getBody or getArguments
\* with a name that is not a key of the index fails with the not-found error
\* that lists all indexed names of the kind in ascending order, reads no
\* document and changes nothing.
C7_NotFoundListsSortedNames ==
    [][ /\ result' # result /\ result'.op \in SkillOps
              /\ result'.args[1] \notin SkillKeys
           => /\ IsNotFound(result', "Skill '" \o result'.args[1]
                                \o "' not found. Available skills: ", SkillKeys)
              /\ UNCHANGED <<fsVars, gitVars>>
        /\ result' # result /\ result'.op \in PromptOps
              /\ result'.args[1] \notin PromptKeys
           => /\ IsNotFound(result', "Prompt '" \o result'.args[1]
                                \o "' not found. Available: ", PromptKeys)
              /\ UNCHANGED <<fsVars, gitVars>> ]_vars

\* getScript for a name that is not indexed, with two skills indexed
C7_Witness ==
    /\ result.op = "getScript"
    /\ result.args[1] \notin SkillKeys
    /\ SkillKeys = {"a", "b"}
    /\ result.listed = <<"a", "b">>

\* C8: for an indexed skill and a filename that does not exist, getScript
\* (getReference) answers "No scripts (references) directory exists for this
\* skill." exactly when the skill has no scripts/ (references/) directory,
\* and enumerates the files of the directory when it exists.
C8_NoDirectoryMessage ==
    result.op \in {"getScript", "getReference"} /\ result.args[1] \in SkillKeys =>
        LET sub == IF result.op = "getScript" THEN "scripts" ELSE "references"
            subDir == join(SkillWinner(result.args[1]), sub)
            saysNoDirectory ==
                endsWith(result.error, "No " \o sub \o " directory exists for this skill.")
        IN  Node(fs, join(subDir, result.args[2])).type = "absent" =>
                /\ ~result.ok
                /\ saysNoDirectory <=> Node(fs, subDir).type # "dir"
                /\ Node(fs, subDir).type = "dir" =>
                     Range(result.listed) =
                        { x \in Filenames : Node(fs, join(subDir, x)).type = "file" }

C10_SortedByNameField ==
    result.op \in {"listSkills", "listPrompts"} =>
        \A i \in 1..(Len(result.value) - 1) :
            ~StrLess(result.value[i + 1].name, result.value[i].name)


(***************************************************************************)
(* Properties of the repository cache and of the resolution of sources     *)
(* (specification SpecGit).                                                *)
(***************************************************************************)
\* C4: cloneOrUpdate is idempotent.  A call with the arguments of the call
\* made just before it, which succeeded, succeeds too, returns the same cache
\* directory and leaves the clone on the same ref and commit.
C4_Idempotent ==
    result.op = "cloneOrUpdate" /\ result.before.ok
            /\ result.before.args = result.args =>
        /\ result.ok
        /\ result.value = result.before.value
        /\ result.tree.kind = "repo"
        /\ result.tree = result.before.tree

\* the second of two calls for a tag, and for the default branch
C4_Witness ==
    /\ result.op = "cloneOrUpdate" /\ result.before.ok
    /\ result.before.args = result.args
    /\ result.ok
    /\ \E k \in 1..Len(gitLog) : gitLog[k].cmd.cmd = "fetch"

\* The classification and the parse of a source, as section 4.1 states them.
BeforeHash(s) ==
    LET hashes == { i \in 1..Len(s) : SubSeq(s, i, i) = "#" }
    IN  IF hashes = {} THEN s ELSE SubSeq(s, 1, First(hashes) - 1)
AfterHash(s) ==
    LET hashes == { i \in 1..Len(s) : SubSeq(s, i, i) = "#" }
    IN  IF hashes = {} THEN "HEAD" ELSE SubSeq(s, First(hashes) + 1, Len(s))
IsRemote(s) ==
    \/ Len(s) >= 4 /\ SubSeq(s, 1, 4) = "git@"
    \/ /\ Len(s) >= 8 /\ SubSeq(s, 1, 8) = "https://"
       /\ Len(BeforeHash(s)) >= 4
       /\ SubSeq(BeforeHash(s), Len(BeforeHash(s)) - 3, Len(BeforeHash(s))) = ".git"

\* C5: when resolveSkillSources returns, its list is as long as the list of
\* sources, a local source is at its position unchanged and a remote source
\* is replaced by the cache directory of its url and ref.
C5_OrderAndLength ==
    resolve.pc = "done" =>
        /\ Len(resolve.resolved) = Len(resolve.sources)
        /\ \A i \in 1..Len(resolve.sources) :
             LET source == resolve.sources[i]
             IN  resolve.resolved[i] =
                    IF IsRemote(source)
                    THEN getSkillkitHome \o "/cache/repos/"
                            \o sha256Hex12(BeforeHash(source) \o "#" \o AfterHash(source))
                    ELSE source

\* a local source and a remote one with a ref, both resolved
C5_Witness ==
    /\ resolve.pc = "done"
    /\ resolve.sources = <<"~/rel", "https://h/r.git#v1">>
    /\ Len(resolve.resolved) = 2

\* a command of git failed in cloneOrUpdate (the pull is in a try of its own)
Failed(k) == ~gitLog[k].cmd.ok /\ gitLog[k].cmd.cmd # "pull"

\* While a call of resolveSkillSources has not been taken by its caller,
\* gitLog holds the commands that call ran.
FailFastState ==
    /\ \A k \in 1..Len(gitLog) :
         resolve.pc # "idle" /\ Failed(k) =>
            /\ k = Len(gitLog)
            /\ resolve.pc = "failed"
            /\ gitLog[k].pos = Len(resolve.resolved) + 1
    /\ resolve.pc = "failed" =>
         /\ resolve.error \in {"GitNotInstalledError", "GitCloneError"}
         /\ Len(resolve.resolved) < Len(resolve.sources)
         /\ gitLog # <<>> /\ Failed(Len(gitLog))
         /\ \A k \in 1..Len(gitLog) : gitLog[k].pos <= Len(resolve.resolved) + 1
    /\ resolve.pc = "done" => \A k \in 1..Len(gitLog) : ~Failed(k)

FailFastStep ==
    resolve.pc = "failed" =>
        /\ resolve' \in {resolve, Idle}
        /\ gitLog' = gitLog

\* C6: resolveSkillSources is fail-fast.  When cloneOrUpdate fails for the
\* source at position i the call ends with that error, returns no list, and
\* runs no command of git for a source after position i.
C6_FailFast == []FailFastState /\ [][FailFastStep]_vars

\* the first of two remote sources failed and the second was never tried
C6_Witness ==
    /\ resolve.pc = "failed"
    /\ Len(resolve.sources) = 2 /\ resolve.resolved = <<>>
    /\ IsRemote(resolve.sources[2])


HasHash(s) == \E i \in 1..Len(s) : SubSeq(s, i, i) = "#"

\* The pairs (url, ref) that have the cache directory dir.
SameDirectory(dir) ==
    { <<u, r>> \in CacheUrls \X CacheRefs : getCacheDir(u, r) = dir }

C13_HeadNamesThePathOnly ==
    /\ resolve.pc # "idle" =>
         \A k \in 1..Len(gitLog) :
            ~HasHash(resolve.sources[gitLog[k].pos]) =>
                ~(gitLog[k].cmd.cmd = "checkout" /\ gitLog[k].cmd.arg = "HEAD")
    /\ result.op = "cloneOrUpdate" /\ result.args[2] = "HEAD" /\ result.ok =>
         /\ ~result.tree.detached
         /\ result.tree.commit = remote[result.args[1]].tip


(***************************************************************************)
(* Properties of the template engine (specification SpecTemplate).         *)
(***************************************************************************)
IsIdentifier(w) ==
    /\ Len(w) > 0
    /\ \A i \in 1..Len(w) : \E c \in 1..Len(WordChars) :
          SubSeq(w, i, i) = SubSeq(WordChars, c, c)

\* The positions of body where a placeholder {{identifier}} starts, and the
\* identifier of the placeholder at such a position.
PlaceholderEnds(body, i) ==
    { j \in (i + 3)..(Len(body) - 1) :
        /\ SubSeq(body, i, i + 1) = "{{"
        /\ SubSeq(body, j, j + 1) = "}}"
        /\ IsIdentifier(SubSeq(body, i + 2, j - 1)) }
PlaceholderStarts(body) == { i \in 1..Len(body) : PlaceholderEnds(body, i) # {} }
PlaceholderAt(body, i) == SubSeq(body, i + 2, First(PlaceholderEnds(body, i)) - 1)
Placeholders(body) == { PlaceholderAt(body, i) : i \in PlaceholderStarts(body) }
FirstOccurrence(body, w) ==
    First({ i \in PlaceholderStarts(body) : PlaceholderAt(body, i) = w })

\* What the frontmatter of the prompt declares.
TemplateText == fs[TemplatePrompt].text
Declared ==
    IF "arguments" \in DOMAIN TemplateText.map /\ TemplateText.map["arguments"].valid
    THEN TemplateText.map["arguments"].args
    ELSE Obj(<<>>, EmptyMap)

\* C14: the keys of getMergedArguments are the declared arguments and the
\* placeholders of the body; a declared entry is returned as declared, a
\* placeholder that is not declared has the specification {}, and the keys
\* are the declared ones followed by the others in the order in which they
\* first occur in the body.
C14_MergedArguments ==
    result.op = "getMergedArguments" =>
        LET merged == result.value
            body == TemplateText.body
            n == Len(Declared.order)
        IN  /\ DOMAIN merged.spec = DOMAIN Declared.spec \cup Placeholders(body)
            /\ Range(merged.order) = DOMAIN merged.spec
            /\ Len(merged.order) = Cardinality(DOMAIN merged.spec)
            /\ \A k \in DOMAIN Declared.spec : merged.spec[k] = Declared.spec[k]
            /\ \A k \in DOMAIN merged.spec \ DOMAIN Declared.spec :
                 merged.spec[k] = EmptyMap
            /\ SubSeq(merged.order, 1, n) = Declared.order
            /\ \A i, j \in (n + 1)..Len(merged.order) :
                 i < j => FirstOccurrence(body, merged.order[i])
                            < FirstOccurrence(body, merged.order[j])


\* body from position i on, with every placeholder whose identifier is a key
\* of values replaced by the text of its value, and nothing else changed.
RECURSIVE SubstitutedFrom(_, _, _)
SubstitutedFrom(body, i, values) ==
    IF i > Len(body) THEN ""
    ELSE IF i \in PlaceholderStarts(body)
                /\ PlaceholderAt(body, i) \in DOMAIN values.spec
    THEN String(values.spec[PlaceholderAt(body, i)])
            \o SubstitutedFrom(body, First(PlaceholderEnds(body, i)) + 2, values)
    ELSE SubSeq(body, i, i) \o SubstitutedFrom(body, i + 1, values)

\* C15: getBodyWithArgs returns the body with every {{key}}, key a key of the
\* values, replaced by the string form of the value of key; the placeholders
\* of other names and all other text are as in the body, and with no values
\* the body is returned as it is.
C15_Substitute ==
    result.op = "getBodyWithArgs" /\ result.ok =>
        /\ result.value = SubstitutedFrom(TemplateText.body, 1, result.args[2])
        /\ result.args[2].order = <<>> => result.value = TemplateText.body

HasAnyOf(text, chars) ==
    \E i \in 1..Len(text) : \E c \in 1..Len(chars) :
        SubSeq(text, i, i) = SubSeq(chars, c, c)

\* every brace of body belongs to a placeholder {{identifier}}
BracesArePlaceholders(body) ==
    \A i \in 1..Len(body) :
        HasAnyOf(SubSeq(body, i, i), "{}") =>
            \E p \in PlaceholderStarts(body) :
                p <= i /\ i <= First(PlaceholderEnds(body, p)) + 1

ArgumentNames == DOMAIN Declared.spec \cup Placeholders(TemplateText.body)
ArgumentDef(k) == IF k \in DOMAIN Declared.spec THEN Declared.spec[k] ELSE EmptyMap
TypeOf(k) ==
    IF OrElse(ArgumentDef(k), "type", "string") \in {"number", "boolean"}
    THEN ArgumentDef(k)["type"] ELSE "string"
IsRequired(k) == "default" \notin DOMAIN ArgumentDef(k) /\ TypeOf(k) # "boolean"

\* C17: an argument is required iff it has no default and is not a boolean.
\* Validation of an input fails when a required argument (a placeholder that
\* is not declared is one) is omitted; an omitted argument with a default
\* takes the default, an omitted boolean without default stays unset, and an
\* input with every required argument and values of the declared types is
\* accepted.
C17_RequiredArguments ==
    result.op = "parseArgs" =>
        LET input == result.args[2].spec
            parsed == result.value.parsed
        IN  /\ \A k \in ArgumentNames \ DOMAIN input :
                 /\ IsRequired(k) => ~parsed.success
                 /\ parsed.success /\ "default" \in DOMAIN ArgumentDef(k) =>
                       /\ k \in DOMAIN parsed.data
                       /\ parsed.data[k] = ArgumentDef(k)["default"]
                 /\ parsed.success /\ ~IsRequired(k)
                       /\ "default" \notin DOMAIN ArgumentDef(k) =>
                       k \notin DOMAIN parsed.data
            /\ (/\ \A k \in ArgumentNames \ DOMAIN input : ~IsRequired(k)
                /\ \A k \in ArgumentNames \cap DOMAIN input : input[k].t = TypeOf(k))
               => parsed.success


(***************************************************************************)
(* Properties of the validators (specification SpecValidate).              *)
(***************************************************************************)
\* The prompt file that is validated, what its frontmatter declares as
\* written, and the placeholders of its body.
PromptFile == fs[TemplatePrompt]
WrittenArguments ==
    IF PromptFile.text.fm = "map" /\ "arguments" \in DOMAIN PromptFile.text.map
    THEN PromptFile.text.map["arguments"].args
    ELSE Obj(<<>>, EmptyMap)
DeclaredNames == DOMAIN WrittenArguments.spec
UndeclaredPlaceholders == Placeholders(PromptFile.text.body) \ DeclaredNames
HasInvalidType ==
    \E k \in DeclaredNames :
        /\ "type" \in DOMAIN WrittenArguments.spec[k]
        /\ WrittenArguments.spec[k]["type"] \notin {"string", "number", "boolean"}
IsValidated == result.op = "validatePrompt" /\ canRead(fs, TemplatePrompt)

\* C18: validatePrompt answers valid exactly when it has no errors.  Every
\* placeholder of the body that is not declared has an error; a declared
\* argument that the body does not use, or that has no description, has a
\* warning and no error, so that a prompt with declared placeholders and
\* valid types is valid whatever its warnings.
C18_ValidIffNoErrors ==
    /\ result.op = "validatePrompt" => (result.value.valid <=> result.value.errors = <<>>)
    /\ IsValidated =>
        /\ \A p \in UndeclaredPlaceholders :
              \E e \in Range(result.value.errors) :
                  startsWith(e, "Undefined variable '" \o p \o "'")
        /\ \A k \in DeclaredNames \ Placeholders(PromptFile.text.body) :
              ("Argument '" \o k \o "' defined but never used.")
                  \in Range(result.value.warnings)
        /\ \A k \in DeclaredNames :
              OrElse(WrittenArguments.spec[k], "description", "") = "" =>
                  ("Argument '" \o k \o "' has no description.")
                      \in Range(result.value.warnings)
        /\ UndeclaredPlaceholders = {} /\ ~HasInvalidType => result.value.valid

\* a valid prompt with the two warnings of a declared argument
C18_Witness ==
    /\ IsValidated
    /\ result.value.valid
    /\ result.value.warnings = <<"Argument 'name' has no description.",
                                 "Argument 'name' defined but never used.">>


\* One edit of a single character (an insertion, a deletion or a
\* substitution) turns a into b.
Without(w, i) == SubSeq(w, 1, i - 1) \o SubSeq(w, i + 1, Len(w))
OneEdit(a, b) ==
    \/ /\ Len(a) = Len(b)
       /\ Cardinality({ i \in 1..Len(a) : SubSeq(a, i, i) # SubSeq(b, i, i) }) = 1
    \/ /\ Len(a) = Len(b) + 1
       /\ \E i \in 1..Len(a) : Without(a, i) = b
    \/ /\ Len(b) = Len(a) + 1
       /\ \E i \in 1..Len(b) : Without(b, i) = a

\* The words one edit away from a, written with the characters of b.
EditsToward(a, b) ==
    { Without(a, i) : i \in 1..Len(a) }
    \cup { SubSeq(a, 1, i - 1) \o SubSeq(b, j, j) \o SubSeq(a, i + 1, Len(a)) :
             i \in 1..Len(a), j \in 1..Len(b) }
    \cup { SubSeq(a, 1, i) \o SubSeq(b, j, j) \o SubSeq(a, i + 1, Len(a)) :
             i \in 0..Len(a), j \in 1..Len(b) }

\* b is at an edit distance of at most 2 from a
WithinTwoEdits(a, b) ==
    \/ a = b
    \/ OneEdit(a, b)
    \/ \E c \in EditsToward(a, b) : OneEdit(c, b)

\* The names the errors for placeholder p suggest.
Suggested(p) ==
    LET prefix == "Undefined variable '" \o p \o "'. Did you mean '"
    IN  { SubSeq(e, Len(prefix) + 1, Len(e) - 2) :
            e \in { x \in Range(result.value.errors) :
                      startsWith(x, prefix) /\ endsWith(x, "'?") } }

\* C19: the error for a placeholder p that is not declared suggests a name
\* exactly when some declared name is within 2 edits of p, and the name it
\* suggests is a declared one within 2 edits of p, other than p.
C19_TypoSuggestion ==
    IsValidated =>
        \A p \in UndeclaredPlaceholders :
            /\ Suggested(p) # {} <=> \E d \in DeclaredNames : WithinTwoEdits(p, d)
            /\ \A n \in Suggested(p) :
                  n \in DeclaredNames /\ WithinTwoEdits(p, n) /\ n # p


\* The SKILL.md that is validated.
SkillFile == fs[ValidatedSkillMd]
LowercaseDigitsHyphen == "abcdefghijklmnopqrstuvwxyz0123456789-"
HasOnly(text, chars) ==
    \A i \in 1..Len(text) : \E c \in 1..Len(chars) :
        SubSeq(text, i, i) = SubSeq(chars, c, c)

\* C20: validateSkill answers valid only for a frontmatter whose keys are
\* among name, description and license, with name and description strings,
\* the name of 1 to 64 lowercase letters, digits and hyphens with no hyphen
\* at either end and no two hyphens in a row, the description of at most
\* 1024 characters with no "<" and no ">".
C20_ValidSkill ==
    result.op = "validateSkill" /\ result.value.valid =>
        /\ canRead(fs, ValidatedSkillMd)
        /\ SkillFile.text.fm = "map"
        /\ LET frontmatter == SkillFile.text.map
           IN  /\ DOMAIN frontmatter \subseteq {"name", "description", "license"}
               /\ {"name", "description"} \subseteq DOMAIN frontmatter
               /\ frontmatter["name"].t = "string"
               /\ frontmatter["description"].t = "string"
               /\ LET name == frontmatter["name"].str
                      description == frontmatter["description"].str
                  IN  /\ Len(name) >= 1 /\ Len(name) <= MAX_NAME_LENGTH
                      /\ HasOnly(name, LowercaseDigitsHyphen)
                      /\ SubSeq(name, 1, 1) # "-"
                      /\ SubSeq(name, Len(name), Len(name)) # "-"
                      /\ \A i \in 1..(Len(name) - 1) : SubSeq(name, i, i + 1) # "--"
                      /\ ~HasAnyOf(description, "<>")
                      /\ Len(description) <= MAX_DESCRIPTION_LENGTH


(***************************************************************************)
(* Properties of the roots of a manager (specification SpecRoots).         *)
(***************************************************************************)
\* seq without the entries that occur earlier in it
RECURSIVE Distinct(_)
Distinct(seq) ==
    IF Len(seq) = 0 THEN <<>>
    ELSE LET front == Distinct(SubSeq(seq, 1, Len(seq) - 1))
             last == seq[Len(seq)]
         IN  IF \E i \in 1..Len(front) : front[i] = last THEN front
             ELSE Append(front, last)

IsExistingDirectory(p) == p \in DOMAIN fs /\ fs[p].type = "dir"

\* The roots the construction asks for: the explicit paths that exist, then
\* the paths of the environment that exist and are not yet in the list, then
\* the bundled root.
ExpectedRoots(extraPaths, envPaths, includeBundled) ==
    LET extra == SelectSeq(extraPaths, IsExistingDirectory)
        env == SelectSeq(envPaths, IsExistingDirectory)
        user == extra \o SelectSeq(Distinct(env),
                                   LAMBDA p : \A i \in 1..Len(extra) : extra[i] # p)
    IN  [user |-> user,
         all |-> user \o (IF includeBundled THEN <<BundledRoot>> ELSE <<>>)]

\* C21: the root list is the existing explicit paths in the order given,
\* the existing paths of the environment that are not yet present, and the
\* bundled root last when it is included; it does not change afterwards.
\* getWritablePaths returns the roots that are not the bundled root, in the
\* order of the root list, and a push on the returned array leaves the
\* lists of the manager as they are.
C21_RootsState ==
    /\ result.op = "constructor" =>
          /\ skillPaths = ExpectedRoots(result.args[1], result.args[2],
                                        result.args[3]).all
          /\ writablePaths = SelectSeq(skillPaths, LAMBDA p : p # BundledRoot)
    /\ result.op = "getWritablePaths" =>
          SelectSeq(result.value, LAMBDA p : p # Pushed)
              = SelectSeq(skillPaths, LAMBDA p : p # BundledRoot)
C21_Roots == []C21_RootsState /\ [][UNCHANGED <<skillPaths, writablePaths>>]_vars


(***************************************************************************)
(* Properties of the calls of the server (specification SpecServe).        *)
(***************************************************************************)
ServingOps ==
    {"listSkills", "getContent", "getScript", "getReference", "getWritablePaths",
     "listPrompts", "getBody", "getArguments", "getBodyWithArgs"}

\* The call of result, made once more in the present state.
Again ==
    CASE result.op = "listSkills" ->
            Returned("listSkills", <<>>, listAllSkills(fs, skillPaths), {})
      [] result.op = "getContent" -> getContent(fs, skillPaths, result.args[1])
      [] result.op = "getScript" ->
            getScript(fs, skillPaths, result.args[1], result.args[2])
      [] result.op = "getReference" ->
            getReference(fs, skillPaths, result.args[1], result.args[2])
      [] result.op = "getWritablePaths" -> getWritablePaths(writablePaths)
      [] result.op = "listPrompts" ->
            Returned("listPrompts", <<>>, listAllPrompts(fs, promptPaths), {})
      [] result.op = "getBody" -> getBody(fs, promptPaths, result.args[1])
      [] result.op = "getArguments" -> getArguments(fs, promptPaths, result.args[1])
      [] result.op = "getBodyWithArgs" ->
            getBodyWithArgs(fs, promptPaths, result.args[1], result.args[2])
      [] OTHER -> result

ServingStep ==
    result' # result /\ result'.op \in ServingOps =>
        UNCHANGED <<fs, skillPaths, writablePaths, promptPaths>>

IndexAtConstruction == discoverSkills(InitFs, skillPaths)

\* C23: the names a manager resolves and the path that wins for a name are
\* those of the index at construction, whatever was added, removed or
\* shadowed under the roots since; the content returned for a name is the
\* present content of the document at that path.
C23_IndexCached ==
    /\ result.op = "getContent" =>
         LET name == result.args[1]
         IN  /\ name \notin DOMAIN IndexAtConstruction =>
                  /\ ~result.ok
                  /\ startsWith(result.error, skillNotFound(name))
             /\ name \in DOMAIN IndexAtConstruction =>
                  /\ ~startsWith(result.error, skillNotFound(name))
                  /\ result.ok =>
                       /\ result.reads = {join(IndexAtConstruction[name], "SKILL.md")}
                       /\ result.value.text
                            = fs[join(IndexAtConstruction[name], "SKILL.md")].text
    /\ result.op = "listSkills" =>
         Len(result.value) = Cardinality(DOMAIN IndexAtConstruction)


(***************************************************************************)
(* The two paths of cloneOrUpdate (specification SpecGit).                 *)
(***************************************************************************)
\* A step that is a direct call of cloneOrUpdate with git installed.
IsCloneOrUpdateStep ==
    calls' = calls + 1 /\ result'.op = "cloneOrUpdate" /\ gitInstalled

CloneOrUpdateStep ==
    IsCloneOrUpdateStep =>
        LET url == result'.args[1]
            ref == result'.args[2]
            dir == getCacheDir(url, ref)
            cmds == [i \in 1..Len(gitLog') |-> gitLog'[i].cmd.cmd]
        IN  /\ cache[dir].kind # "repo" =>
                 /\ Len(cmds) >= 2 /\ cmds[2] = "clone"
                 /\ "fetch" \notin Range(cmds)
            /\ cache[dir].kind = "repo" =>
                 /\ Len(cmds) >= 2 /\ cmds[2] = "fetch"
                 /\ "clone" \notin Range(cmds)
            /\ (cache[dir].kind # "repo" /\ remote[url].reachable
                  /\ ref \in {"HEAD", "v1"}) => result'.ok

\* C24: cloneOrUpdate clones exactly when its cache directory holds no
\* repository and fetches exactly when it holds one; a directory that is
\* there without a repository is cloned into, so that the call succeeds
\* when the remote can be reached and the ref exists.
C24_ClonePathIffNoRepository == [][CloneOrUpdateStep]_vars


(***************************************************************************)
(* The order of the checks of validateSkill (specification SpecValidate).  *)
(***************************************************************************)
SkillErrors == result.value.errors
SkillFrontmatter == SkillFile.text.map

\* The class of checks that fails first for the SKILL.md that is validated,
\* in the order: file, "---", closing delimiter, mapping, keys, fields.
FirstFailingClass ==
    IF SkillFile.type = "absent" THEN "missing"
    ELSE IF ~canRead(fs, ValidatedSkillMd) THEN "unreadable"
    ELSE IF SkillFile.text.fm = "none" THEN "no frontmatter"
    ELSE IF SkillFile.text.fm = "unclosed" THEN "unclosed"
    ELSE IF SkillFile.text.fm \in {"scalar", "invalid"} THEN "no mapping"
    ELSE IF ~(DOMAIN SkillFrontmatter \subseteq {"name", "description", "license"})
    THEN "keys"
    ELSE IF ~({"name", "description"} \subseteq DOMAIN SkillFrontmatter) THEN "fields"
    ELSE "content"

IsNameError(e) == startsWith(e, "Name ")
IsDescriptionError(e) == startsWith(e, "Description ")

Padded(text) ==
    Len(text) > 0 /\ (SubSeq(text, 1, 1) = " " \/ SubSeq(text, Len(text), Len(text)) = " ")

\* A name, or a description, that is there and is not as it must be.
BadName(name) ==
    \/ name.t # "string"
    \/ /\ name.str # "" /\ ~Padded(name.str)
       /\ \/ ~HasOnly(name.str, LowercaseDigitsHyphen)
          \/ SubSeq(name.str, 1, 1) = "-"
          \/ SubSeq(name.str, Len(name.str), Len(name.str)) = "-"
          \/ \E i \in 1..(Len(name.str) - 1) : SubSeq(name.str, i, i + 1) = "--"
          \/ Len(name.str) > MAX_NAME_LENGTH
BadDescription(description) ==
    \/ description.t # "string"
    \/ /\ ~Padded(description.str)
       /\ \/ HasAnyOf(description.str, "<>")
          \/ Len(description.str) > MAX_DESCRIPTION_LENGTH

\* C25: validateSkill ends at the first class of checks that fails, with the
\* errors of that class only; the checks of the content of name and
\* description run when all classes before them pass, and their errors are
\* reported together.
C25_CheckOrder ==
    result.op = "validateSkill" =>
        /\ FirstFailingClass = "missing" => SkillErrors = <<"SKILL.md not found">>
        /\ FirstFailingClass = "unreadable" =>
              Len(SkillErrors) = 1 /\ startsWith(SkillErrors[1], "Error reading SKILL.md")
        /\ FirstFailingClass = "no frontmatter" =>
              SkillErrors = <<"No YAML frontmatter found">>
        /\ FirstFailingClass = "unclosed" => SkillErrors = <<"Invalid frontmatter format">>
        /\ FirstFailingClass = "no mapping" =>
              /\ Len(SkillErrors) = 1
              /\ \/ SkillErrors[1] = "Frontmatter must be a YAML dictionary"
                 \/ startsWith(SkillErrors[1], "Invalid YAML in frontmatter")
        /\ FirstFailingClass = "keys" =>
              Len(SkillErrors) = 1 /\ startsWith(SkillErrors[1], "Unexpected key(s)")
        /\ FirstFailingClass = "fields" =>
              /\ SkillErrors # <<>>
              /\ \A e \in Range(SkillErrors) : startsWith(e, "Missing '")
        /\ FirstFailingClass = "content" =>
              /\ \A e \in Range(SkillErrors) : IsNameError(e) \/ IsDescriptionError(e)
              /\ BadName(SkillFrontmatter["name"]) =>
                    \E e \in Range(SkillErrors) : IsNameError(e)
              /\ BadDescription(SkillFrontmatter["description"]) =>
                    \E e \in Range(SkillErrors) : IsDescriptionError(e)


(***************************************************************************)
(* The substitution and inserted text (specification SpecTemplate).        *)
(***************************************************************************)
\* C26: text inserted for one key is not scanned again.  When the value of a
\* key a whose placeholder is in the body contains {{b}}, b a key too, that
\* {{b}} is in the result, and the result is the same when the keys are
\* taken in the opposite order.
C26_SinglePass ==
    result.op = "getBodyWithArgs" /\ result.ok =>
        LET values == result.args[2]
        IN  /\ \A a, b \in DOMAIN values.spec :
                 (/\ a \in Placeholders(TemplateText.body)
                  /\ includes(String(values.spec[a]), "{{" \o b \o "}}"))
                 => includes(result.value, "{{" \o b \o "}}")
            /\ result.value
                 = substituteEntries(TemplateText.body, Reverse(values.order), values)


(***************************************************************************)
(* The order of the commands of resolveSkillSources (specification         *)
(* SpecGit).                                                               *)
(***************************************************************************)
\* While a call of resolveSkillSources runs: the commands of git are in the
\* order of the positions of their sources, belong to remote sources up to
\* the one being resolved, and the commands of an earlier position have all
\* succeeded (the pull apart, whose failure cloneOrUpdate ignores).
SequentialState ==
    resolve.pc # "idle" =>
        \A k \in 1..Len(gitLog) :
            /\ gitLog[k].pos \in 1..Len(resolve.sources)
            /\ gitLog[k].pos <= Len(resolve.resolved) + 1
            /\ IsRemote(resolve.sources[gitLog[k].pos])
            /\ \A j \in 1..(k - 1) :
                 /\ gitLog[j].pos <= gitLog[k].pos
                 /\ gitLog[j].pos < gitLog[k].pos => ~Failed(j)

\* A step of the call adds the commands of one source only, the one at the
\* position that follows the sources resolved so far.
SequentialStep ==
    resolve.pc = "running" /\ gitLog' # gitLog =>
        /\ Len(gitLog') > Len(gitLog)
        /\ SubSeq(gitLog', 1, Len(gitLog)) = gitLog
        /\ \A k \in (Len(gitLog) + 1)..Len(gitLog') :
             gitLog'[k].pos = Len(resolve.resolved) + 1

C28_Confined ==
    result.op \in {"getScript", "getReference"} /\ result.ok =>
        LET dir == join(SkillWinner(result.args[1]),
                        IF result.op = "getScript" THEN "scripts" ELSE "references")
        IN  /\ result.reads = {result.value.path}
            /\ IsUnder(result.value.path, dir)
            /\ Len(result.value.path) > Len(dir)


(***************************************************************************)
(* The names of a listing (specification SpecIndex).                       *)
(***************************************************************************)
\* C29: no two entries of a listing of skills, or of prompts, have the same
\* name, and the arguments of a listed prompt are those of the file the
\* entry was made from.
C29_NoDuplicateNames ==
    /\ result.op \in {"listSkills", "listPrompts"} =>
         \A i, j \in 1..Len(result.value) :
            i # j => result.value[i].name # result.value[j].name
    /\ result.op = "listPrompts" =>
         \A i \in 1..Len(result.value) : result.value[i].argsSrc = result.value[i].src


(***************************************************************************)
(* The validator and the engine (specification SpecValidate).              *)
(***************************************************************************)
\* C30: when validatePrompt reports a prompt file valid, getArguments on
\* that prompt returns every argument the frontmatter declares, with the
\* type and the default it declares.
C30_ValidatorAgreesWithEngine ==
    IsValidated /\ result.value.valid =>
        LET arguments == getArguments(fs, promptPaths, "a").value
        IN  \A k \in DeclaredNames :
                /\ k \in DOMAIN arguments.spec
                /\ \A property \in {"type", "default"} :
                       property \in DOMAIN WrittenArguments.spec[k] =>
                           /\ property \in DOMAIN arguments.spec[k]
                           /\ arguments.spec[k][property]
                                = WrittenArguments.spec[k][property]

====
